---------------------------- MODULE Spec2Model ----------------------------
(***************************************************************************)
(* A model of dokklib-db: the single-table DynamoDB access layer.          *)
(*                                                                         *)
(* Eleven specifications share this module:                                *)
(*   SpecTx    - one TransactionCanceledException: construction, the lazy  *)
(*               `reasons` property and `has_error`                        *)
(*               (dokklib_db/errors/transaction.py);                       *)
(*   SpecKeys  - entity keys, their string forms, and the read path that   *)
(*               strips entity prefixes (dokklib_db/keys.py, table.py);    *)
(*   SpecStrip - _remove_entity_prefix applied again and again             *)
(*               (dokklib_db/table.py);                                    *)
(*   Spec      - the Table facade in front of a remote store that enforces *)
(*               condition expressions (dokklib_db/table.py, op_args.py);  *)
(*   SpecErr   - the same facade with a client whose every call fails;     *)
(*   SpecBatch - batch_get on a table that already holds items;            *)
(*   SpecArgs  - the op-args and their keyword arguments on their own      *)
(*               (dokklib_db/op_args.py);                                  *)
(*   SpecData  - put, insert and get of items whose attribute values look  *)
(*               like prefixed keys;                                       *)
(*   SpecValues - one dict of generic values through serialize_dict,       *)
(*               deserialize_dict and _strip_prefixes                      *)
(*               (dokklib_db/serializer.py, table.py);                     *)
(*   SpecSteps - one caller, each operation in its steps (the request is   *)
(*               built, then the client is called) under a clock that      *)
(*               advances between steps;                                   *)
(*   SpecRace  - two callers inserting, their steps interleaved.           *)
(*                                                                         *)
(* Text is modelled as a sequence of lexemes.  In an error message a       *)
(* maximal run of letters and digits is one lexeme (a word) and every      *)
(* other character is a lexeme of its own; in a key string every           *)
(* character is its own lexeme.                                            *)
(***************************************************************************)
EXTENDS Integers, Sequences, FiniteSets, TLC

VARIABLES
    e_op_args,      \* TransactionCanceledException._op_args
    e_response,     \* ClientError.response (the boto error response)
    e_reasons,      \* TransactionCanceledException._reasons
    e_out,          \* outcome of the last call made on the exception
    e_sent,         \* what the store rendered into the message (history)
    k_args,         \* the constructor arguments of the two entity keys (history)
    k_a,            \* an EntityKey: its _prefix and _value
    k_b,            \* a second EntityKey
    k_out,          \* outcome of the last call made with the keys
    s_in,           \* the string first handed to _remove_entity_prefix
    s_cur,          \* the string after the applications made so far
    s_n,            \* how many times _remove_entity_prefix was applied
    t_primary_index,\* Table._primary_index
    db_items,       \* the table of the remote store: (pk, sk) strings to item
    t_call,         \* the arguments of the last facade call (history)
    t_out,          \* how the last facade call ended
    v_item,         \* the dict a caller hands to the codec or to _strip_prefixes
    v_out,          \* outcome of the last call made with that dict
    utc_now,        \* the UTC clock, in ticks
    p_pc,           \* where each caller stands in its facade operation
    p_call,         \* per caller: the operation and the request built so far
    p_calls,        \* per caller: the calls its operation made on the client
    p_out           \* per caller: how its operation ended

txvars == <<e_op_args, e_response, e_reasons, e_out, e_sent>>
keyvars == <<k_args, k_a, k_b, k_out>>
stripvars == <<s_in, s_cur, s_n>>
facvars == <<t_primary_index, db_items, t_call, t_out>>
valvars == <<v_item, v_out>>
runvars == <<utc_now, p_pc, p_call, p_calls, p_out>>

vars == <<txvars, keyvars, stripvars, facvars, valvars, runvars>>

---------------------------------------------------------------------------
(* Bounds of the model. *)

MaxTokens == 2      \* reason tokens rendered into one message
MaxOps == 2         \* op-args handed to one transaction
MaxValueLen == 2    \* characters of a key value
MaxStrLen == 3      \* characters of a string handed to prefix stripping
MaxStrips == 2      \* repeated applications of prefix stripping
MaxKeys == 2        \* keys handed to one batch_get
MaxListLen == 2     \* members of a list value
MaxTicks == 3       \* ticks of the clock during a run
TicksPerSecond == 2 \* resolution of the clock

---------------------------------------------------------------------------
(* Generic helpers. *)

SeqsUpTo(S, n) == UNION {[1..k -> S] : k \in 0..n}

\* Python's `d.get(key, default)` on a mapping modelled as a function.
DictGet(d, key, default) == IF key \in DOMAIN d THEN d[key] ELSE default

\* Whether `sep` occurs in `s` at index i.
StartsAt(s, sep, i) ==
    /\ i + Len(sep) - 1 <= Len(s)
    /\ \A k \in 1..Len(sep) : s[i + k - 1] = sep[k]

\* Python's `str.split(sep)`: cut at every occurrence of sep, scanning from the
\* left, occurrences not overlapping; always at least one piece.
RECURSIVE SplitFrom(_, _, _, _)
SplitFrom(s, sep, i, cur) ==
    IF i > Len(s) THEN <<cur>>
    ELSE IF StartsAt(s, sep, i)
         THEN <<cur>> \o SplitFrom(s, sep, i + Len(sep), <<>>)
         ELSE SplitFrom(s, sep, i + 1, Append(cur, s[i]))

Split(s, sep) == SplitFrom(s, sep, 1, <<>>)

\* Python's `sep.join(pieces)`.
RECURSIVE Join(_, _)
Join(pieces, sep) ==
    IF Len(pieces) = 0 THEN <<>>
    ELSE IF Len(pieces) = 1 THEN pieces[1]
    ELSE pieces[1] \o sep \o Join(Tail(pieces), sep)

---------------------------------------------------------------------------
(* dokklib_db/errors/transaction.py *)

\* The exception types, by class name.
ClientError == "ClientError"

\* `_codes_to_exceptions`.
CodesToExceptions ==
    [ConditionalCheckFailed |-> "ConditionalCheckFailedException",
     ItemCollectionSizeLimitExceeded |-> "ItemCollectionSizeLimitExceededException",
     TransactionConflict |-> "TransactionConflictException",
     ProvisionedThroughputExceeded |-> "ProvisionedThroughputExceededException",
     ThrottlingError |-> "ThrottlingError",
     ValidationError |-> "ValidationError"]

\* Python's None inside a reasons list.
PyNone == "<None>"

\* Lexemes: words (runs of letters and digits) and single other characters.
Comma == ","
Space == " "
LBracket == "["
RBracket == "]"
Words == DOMAIN CodesToExceptions \cup
         {"None", "InternalServerError", "reasons", "cancellation", "specific"}

\* \W of the regex: anything that is not a letter, a digit or an underscore.
IsNonWord(c) == c \in {Comma, Space, LBracket, RBracket, ":"}

\* [A-Za-z0-9, ] of the regex.
InReasonClass(c) == c \in Words \cup {Comma, Space}

\* The literal `reasons` of the regex ends at lexeme c.
EndsWithReasons(c) == c = "reasons"

\* The least and the greatest member of a non-empty set of positions.
MinOf(S) == CHOOSE x \in S : \A y \in S : x <= y
MaxOf(S) == CHOOSE x \in S : \A y \in S : x >= y
MinOrZero(S) == IF S = {} THEN 0 ELSE MinOf(S)

\* `([A-Za-z0-9, ]+)]` after an opening bracket at lexeme j: the places where
\* the closing bracket can be.
ClosingBrackets(m, j) ==
    {l \in (j + 2)..Len(m) :
        /\ m[l] = RBracket
        /\ \A k \in (j + 1)..(l - 1) : InReasonClass(m[k])}

\* `reasons\W+\[([A-Za-z0-9, ]+)]` matched with the literal at lexeme i and the
\* opening bracket at lexeme j: where the closing bracket is, 0 when no match.
GroupEnd(m, i, j) ==
    IF /\ i < j - 1
       /\ j <= Len(m)
       /\ EndsWithReasons(m[i])
       /\ \A k \in (i + 1)..(j - 1) : IsNonWord(m[k])
       /\ m[j] = LBracket
    THEN MinOrZero(ClosingBrackets(m, j))
    ELSE 0

\* The lexemes at which a match of the regex can start.
MatchStarts(m) == {i \in 1..Len(m) : \E j \in 1..Len(m) : GroupEnd(m, i, j) > 0}

\* \W+ is greedy: of the opening brackets that let the rest match, the last.
GreedyBracket(m, i) == MaxOf({j \in 1..Len(m) : GroupEnd(m, i, j) > 0})

\* <<first, last>> of group 1 for the match with its opening bracket at j.
GroupAt(m, i, j) == <<j + 1, GroupEnd(m, i, j) - 1>>

\* `re.search(_reasons_re, message)`: the leftmost start.  <<0, 0>> when
\* there is no match, otherwise <<first, last>> of group 1.
SearchIn(m, starts) ==
    IF starts = {} THEN <<0, 0>>
    ELSE GroupAt(m, MinOf(starts), GreedyBracket(m, MinOf(starts)))

ReasonsSearch(m) == SearchIn(m, MatchStarts(m))

\* `split = reasons.split(', ')`, then `,` alone when that cut nothing.
PickSplitNoFallback(reasons, split) == split

PickSplit(reasons, split) ==
    IF split[1] = reasons THEN Split(reasons, <<Comma>>) ELSE split

SplitReasons(reasons) == PickSplit(reasons, Split(reasons, <<Comma, Space>>))

\* `_extract_reasons`, given the result of the search.
ExtractFrom(message, g) ==
    IF g[1] = 0 THEN <<>> ELSE SplitReasons(SubSeq(message, g[1], g[2]))

ExtractReasons(message) == ExtractFrom(message, ReasonsSearch(message))

\* One reason token to its entry of the reasons list (the loop body of
\* `_get_reasons`).
ReasonOfUnknownAsNone(r) ==
    IF r = <<"None">> THEN PyNone
    ELSE IF Len(r) = 1 /\ r[1] \in DOMAIN CodesToExceptions
         THEN CodesToExceptions[r[1]]
         ELSE PyNone

ReasonOf(r) ==
    IF r = <<"None">> THEN PyNone
    ELSE IF Len(r) = 1 /\ r[1] \in DOMAIN CodesToExceptions
         THEN CodesToExceptions[r[1]]
         ELSE ClientError

\* The loop of `_get_reasons` over the extracted tokens.
MapReasons(reasons) == [i \in 1..Len(reasons) |-> ReasonOf(reasons[i])]

\* The message of an error response: `response.get('Error', {}).get('Message', '')`.
MessageOf(response) == DictGet(DictGet(response, "Error", <<>>), "Message", <<>>)

\* The length check that ends `_get_reasons`.
CheckLengthTruncating(op_args, res) ==
    [raised |-> "", list |-> SubSeq(res, 1, Len(op_args))]

CheckLength(op_args, res) ==
    IF Len(res) # Len(op_args)
    THEN [raised |-> "ValueError", list |-> <<>>]
    ELSE [raised |-> "", list |-> res]

\* `_get_reasons`: the list, or the ValueError of a length mismatch.
GetReasons(op_args, response) ==
    CheckLength(op_args, MapReasons(ExtractReasons(MessageOf(response))))

\* The loop of `has_error` over a reasons list.
HasErrorScanFirstOnly(reasons, exception) ==
    Len(reasons) > 0 /\ reasons[1] = exception

HasErrorScan(reasons, exception) ==
    \E i \in 1..Len(reasons) : reasons[i] = exception

---------------------------------------------------------------------------
(* dokklib_db/index.py *)

PrimaryGlobalIndex == [partition_key |-> "PK", sort_key |-> "SK"]

InversePrimaryIndex == [name |-> "GSI_1", partition_key |-> "SK", sort_key |-> "PK"]

\* A primary index of the application's own (tests/unit/table_test.py).
TestIndex == [partition_key |-> "my-pk-name", sort_key |-> "my-sk-name"]

---------------------------------------------------------------------------
(* dokklib_db/serializer.py: Python values carry their type, wire values *)
(* the one-letter tag of the store.                                      *)

PyStr(chars) == [t |-> "str", v |-> chars]

PyBool(b) == [t |-> "bool", v |-> b]

PyInt(n) == [t |-> "int", v |-> n]

PyDecimal(n) == [t |-> "Decimal", v |-> n]

PyBytes(chars) == [t |-> "bytes", v |-> chars]

\* boto3's wrapper of binary values.
PyBinary(chars) == [t |-> "Binary", v |-> chars]

PyList(items) == [t |-> "list", v |-> items]

PySet(members) == [t |-> "set", v |-> members]

PyDict(d) == [t |-> "dict", v |-> d]

PyNull == [t |-> "NoneType", v |-> PyNone]

\* A number on the wire is its decimal string: `str(create_decimal(value))`
\* one way, `create_decimal(string)` the other.
DigitChars == <<"0", "1", "2", "3", "4", "5", "6", "7", "8", "9">>

RECURSIVE NatStr(_)
NatStr(n) ==
    IF n < 10 THEN <<DigitChars[n + 1]>>
    ELSE NatStr(n \div 10) \o <<DigitChars[(n % 10) + 1]>>

DecimalStrUnsigned(n) == IF n < 0 THEN NatStr(-n) ELSE NatStr(n)

DecimalStr(n) == IF n < 0 THEN <<"-">> \o NatStr(-n) ELSE NatStr(n)

DigitOf(c) == CHOOSE d \in 0..9 : DigitChars[d + 1] = c

RECURSIVE ParseNat(_)
ParseNat(chars) ==
    IF Len(chars) = 0 THEN 0
    ELSE ParseNat(SubSeq(chars, 1, Len(chars) - 1)) * 10 + DigitOf(chars[Len(chars)])

CreateDecimal(chars) ==
    IF chars[1] = "-" THEN 0 - ParseNat(Tail(chars)) ELSE ParseNat(chars)

\* The tag TypeSerializer gives a value: null, boolean, number, string and
\* binary first, then the sets by what their members are, then maps and lists.
SetOf(val, types) == val.t = "set" /\ \A m \in val.v : m.t \in types

DynamoType(val) ==
    IF val.t = "NoneType" THEN "NULL"
    ELSE IF val.t = "bool" THEN "BOOL"
    ELSE IF val.t \in {"int", "Decimal"} THEN "N"
    ELSE IF val.t = "str" THEN "S"
    ELSE IF val.t \in {"bytes", "Binary"} THEN "B"
    ELSE IF SetOf(val, {"int", "Decimal"}) THEN "NS"
    ELSE IF SetOf(val, {"str"}) THEN "SS"
    ELSE IF SetOf(val, {"bytes", "Binary"}) THEN "BS"
    ELSE IF val.t = "dict" THEN "M"
    ELSE "L"

\* The members of a set as the list the wire carries, in the order the set
\* gives them.
SetToSeq(members) ==
    CHOOSE s \in [1..Cardinality(members) -> members] :
        \A i, j \in DOMAIN s : s[i] = s[j] => i = j

\* `serialize_val`: TypeSerializer.serialize.
RECURSIVE SerializeVal(_)
SerializeVal(val) ==
    CASE DynamoType(val) = "S" -> [S |-> val.v]
      [] DynamoType(val) = "NULL" -> [NULL |-> TRUE]
      [] DynamoType(val) = "BOOL" -> [BOOL |-> val.v]
      [] DynamoType(val) = "N" -> [N |-> DecimalStr(val.v)]
      [] DynamoType(val) = "B" -> [B |-> val.v]
      [] DynamoType(val) = "NS" ->
            [NS |-> [i \in 1..Cardinality(val.v) |-> DecimalStr(SetToSeq(val.v)[i].v)]]
      [] DynamoType(val) = "SS" ->
            [SS |-> [i \in 1..Cardinality(val.v) |-> SetToSeq(val.v)[i].v]]
      [] DynamoType(val) = "BS" ->
            [BS |-> [i \in 1..Cardinality(val.v) |-> SetToSeq(val.v)[i].v]]
      [] DynamoType(val) = "M" -> [M |-> [k \in DOMAIN val.v |-> SerializeVal(val.v[k])]]
      [] DynamoType(val) = "L" -> [L |-> [i \in DOMAIN val.v |-> SerializeVal(val.v[i])]]

\* `deserialize_val`: TypeDeserializer.deserialize, by the tag of the value.
WireTag(dynamo_val) == CHOOSE tag \in DOMAIN dynamo_val : TRUE

RECURSIVE DeserializeVal(_)
DeserializeVal(dynamo_val) ==
    CASE WireTag(dynamo_val) = "S" -> PyStr(dynamo_val.S)
      [] WireTag(dynamo_val) = "NULL" -> PyNull
      [] WireTag(dynamo_val) = "BOOL" -> PyBool(dynamo_val.BOOL)
      [] WireTag(dynamo_val) = "N" -> PyDecimal(CreateDecimal(dynamo_val.N))
      [] WireTag(dynamo_val) = "B" -> PyBinary(dynamo_val.B)
      [] WireTag(dynamo_val) = "NS" ->
            PySet({PyDecimal(CreateDecimal(dynamo_val.NS[i])) : i \in DOMAIN dynamo_val.NS})
      [] WireTag(dynamo_val) = "SS" ->
            PySet({PyStr(dynamo_val.SS[i]) : i \in DOMAIN dynamo_val.SS})
      [] WireTag(dynamo_val) = "BS" ->
            PySet({PyBinary(dynamo_val.BS[i]) : i \in DOMAIN dynamo_val.BS})
      [] WireTag(dynamo_val) = "M" ->
            PyDict([k \in DOMAIN dynamo_val.M |-> DeserializeVal(dynamo_val.M[k])])
      [] WireTag(dynamo_val) = "L" ->
            PyList([i \in DOMAIN dynamo_val.L |-> DeserializeVal(dynamo_val.L[i])])

\* `serialize_dict` / `deserialize_dict`: value by value, keys kept.
SerializeDict(item) == [k \in DOMAIN item |-> SerializeVal(item[k])]

DeserializeDict(dynamo_item) == [k \in DOMAIN dynamo_item |-> DeserializeVal(dynamo_item[k])]

---------------------------------------------------------------------------
(* dokklib_db/keys.py *)

\* `str.upper` on the characters class names are written with.
Upper(c) == IF c = "s" THEN "S" ELSE c

\* `EntityName.to_prefix`: the upper-cased class name and `#`.
ToPrefixNoUpper(name) == name \o <<"#">>

ToPrefix(name) == [i \in 1..Len(name) |-> Upper(name[i])] \o <<"#">>

\* `EntityKey.__init__` (PartitionKey, SortKey and PrefixSortKey inherit it).
EntityKey(variant, entity_name, value) ==
    [variant |-> variant, prefix |-> ToPrefix(entity_name), value |-> value]

\* `EntityKey.__str__`.
EntityKeyStrValueOnly(key) == key.value

EntityKeyStr(key) == key.prefix \o key.value

\* Python's `hash` of a string: a function of its characters.
CharCode(c) ==
    CASE c = "U" -> 1 [] c = "S" -> 2 [] c = "1" -> 3 [] c = "_" -> 4
      [] c = "#" -> 5 [] c = "a" -> 6 [] c = "s" -> 7 [] OTHER -> 8

RECURSIVE StrHash(_)
StrHash(chars) ==
    IF chars = <<>> THEN 7
    ELSE (StrHash(SubSeq(chars, 1, Len(chars) - 1)) * 31 + CharCode(chars[Len(chars)])) % 1009

\* `EntityKey.__hash__`.
EntityKeyHashByVariant(key) ==
    StrHash(EntityKeyStr(key) \o (IF key.variant = "SortKey" THEN <<"s">> ELSE <<>>))

EntityKeyHash(key) == StrHash(EntityKeyStr(key))

\* `EntityKey.__eq__`.
EntityKeyEqSameVariant(key, other) ==
    key.variant = other.variant /\ EntityKeyStr(key) = EntityKeyStr(other)

EntityKeyEq(key, other) == EntityKeyStr(key) = EntityKeyStr(other)

\* `PrimaryKey.__init__`.
PrimaryKey(pk, sk) == [pk |-> pk, sk |-> sk]

\* `PrimaryKey._tuple`.
PrimaryKeyTuple(key) == <<EntityKeyStr(key.pk), EntityKeyStr(key.sk)>>

\* Python's `hash` of a 2-tuple of strings: a function of the hashes of its
\* items, in order.
TupleHash(t) == (StrHash(t[1]) * 31 + StrHash(t[2])) % 1009

\* `PrimaryKey.__hash__`.
PrimaryKeyHash(key) == TupleHash(PrimaryKeyTuple(key))

\* `PrimaryKey.__eq__`: with another PrimaryKey (is_instance) the tuples are
\* compared, with anything else the tuple and the other object.
PrimaryKeyEqPartitionOnly(key, other, is_instance) ==
    IF is_instance THEN PrimaryKeyTuple(key)[1] = PrimaryKeyTuple(other)[1]
    ELSE PrimaryKeyTuple(key)[1] = other[1]

PrimaryKeyEq(key, other, is_instance) ==
    IF is_instance THEN PrimaryKeyTuple(key) = PrimaryKeyTuple(other)
    ELSE PrimaryKeyTuple(key) = other

\* `PrimaryKey.serialize`: a dict literal, the sort attribute written last.
PrimaryKeySerializeSwapped(pk, sk, global_index) ==
    SerializeDict(
        [a \in {global_index.partition_key, global_index.sort_key} |->
            IF a = global_index.sort_key THEN PyStr(EntityKeyStr(pk))
            ELSE PyStr(EntityKeyStr(sk))])

PrimaryKeySerialize(pk, sk, global_index) ==
    SerializeDict(
        [a \in {global_index.partition_key, global_index.sort_key} |->
            IF a = global_index.sort_key THEN PyStr(EntityKeyStr(sk))
            ELSE PyStr(EntityKeyStr(pk))])

---------------------------------------------------------------------------
(* dokklib_db/table.py: normalising what a read returns. *)

\* [A-Z0-9_] of the pattern.
InPrefixClass(c) == c \in {"U", "S", "1", "_"}

InAnyCaseClass(c) == c \in {"U", "S", "1", "_", "a", "s"}

\* `.` of the pattern: any character but a newline.
IsDot(c) == c # "\n"

\* Where `^[A-Z0-9_]+#` ends: the first `#`, with one or more characters of
\* the class and nothing else before it; 0 when the string has no such start.
PrefixEndLoose(string) ==
    MinOrZero({p \in 2..Len(string) :
                 /\ string[p] = "#"
                 /\ \A k \in 1..(p - 1) : InAnyCaseClass(string[k])})

PrefixEnd(string) ==
    MinOrZero({p \in 2..Len(string) :
                 /\ string[p] = "#"
                 /\ \A k \in 1..(p - 1) : InPrefixClass(string[k])})

\* Where `(.+)$` ends when it starts after position p: one or more characters
\* that are no newline up to the end of the string, or up to a newline that
\* is the last character; 0 when the rest does not match.
GroupLast(string, p) ==
    IF /\ p + 1 <= Len(string)
       /\ \A k \in (p + 1)..(Len(string) - 1) : IsDot(string[k])
    THEN IF IsDot(string[Len(string)]) THEN Len(string)
         ELSE IF p + 1 <= Len(string) - 1 THEN Len(string) - 1 ELSE 0
    ELSE 0

\* `_remove_entity_prefix`, given where the prefix ends.
RemoveFrom(string, p) ==
    IF p > 0 /\ GroupLast(string, p) > 0
    THEN SubSeq(string, p + 1, GroupLast(string, p))
    ELSE string

RemoveEntityPrefixLoose(string) == RemoveFrom(string, PrefixEndLoose(string))

RemoveEntityPrefix(string) == RemoveFrom(string, PrefixEnd(string))

\* `_strip_prefixes`: a copy with every top-level string value stripped.
StripPrefixes(item) ==
    [k \in DOMAIN item |->
        IF item[k].t = "str" THEN PyStr(RemoveEntityPrefix(item[k].v)) ELSE item[k]]

\* `_normalize_item` / `_normalize_items`.
\* The two dicts `_strip_prefixes` leaves behind: the one it was given and
\* the deep copy it worked on and returns.
StripPrefixesCallNoCopy(item) ==
    [item |-> StripPrefixes(item), item_copy |-> StripPrefixes(item)]

StripPrefixesCall(item) ==
    [item |-> item, item_copy |-> StripPrefixes(item)]

NormalizeItem(item) == StripPrefixes(DeserializeDict(item))

NormalizeItems(items) == [i \in 1..Len(items) |-> NormalizeItem(items[i])]

\* What `get` returns for a response of get_item: the item, or None.
GetResult(res) ==
    IF "Item" \in DOMAIN res /\ DOMAIN res.Item # {}
    THEN [found |-> TRUE, items |-> <<NormalizeItem(res.Item)>>]
    ELSE [found |-> FALSE, items |-> <<>>]

\* What `_query` returns for a response of query.
QueryResult(query_res) ==
    [found |-> TRUE, items |-> NormalizeItems(DictGet(query_res, "Items", <<>>))]

\* The items `batch_get` returns for a response of batch_get_item.
BatchGetItems(res, table_name) ==
    [found |-> TRUE,
     items |-> NormalizeItems(DictGet(DictGet(res, "Responses", <<>>), table_name, <<>>))]

---------------------------------------------------------------------------
(* Each specification leaves the other specifications' variables as they *)
(* are before anything is constructed.                                   *)

NoKey == [variant |-> "", prefix |-> <<>>, value |-> <<>>]

NoKeyCall == [call |-> "init"]

TxIdle ==
    /\ e_op_args = <<>>
    /\ e_response = <<>>
    /\ e_reasons = [isNone |-> TRUE, list |-> <<>>]
    /\ e_out = [call |-> "init"]
    /\ e_sent = <<>>

KeysIdle ==
    /\ k_args = <<>>
    /\ k_a = NoKey
    /\ k_b = NoKey
    /\ k_out = NoKeyCall

StripIdle ==
    /\ s_in = <<>>
    /\ s_cur = <<>>
    /\ s_n = 0

FacadeIdle ==
    /\ t_primary_index = PrimaryGlobalIndex
    /\ db_items = <<>>
    /\ t_call = [op |-> "init"]
    /\ t_out = [op |-> "init"]

ValuesIdle ==
    /\ v_item = <<>>
    /\ v_out = [call |-> "init"]

\* The callers of the facade: threads, each with a Table of its own.
Callers == {1, 2}

CallersIdle ==
    /\ utc_now = 0
    /\ p_pc = [p \in Callers |-> "idle"]
    /\ p_call = [p \in Callers |-> [op |-> "init"]]
    /\ p_calls = [p \in Callers |-> <<>>]
    /\ p_out = [p \in Callers |-> [op |-> "init"]]

---------------------------------------------------------------------------
(* The inputs of SpecTx. *)

\* Reason tokens as the store writes them: one word each.
Tokens == {<<w>> : w \in DOMAIN CodesToExceptions \cup {"None", "InternalServerError"}}

Preambles ==
    {<<>>,
     <<"cancellation", Space, "reasons", Space, "specific", Space>>}

\* The message the store sends for a list of reason tokens.
Render(pre, toks, delim) ==
    pre \o <<"reasons", Space, LBracket>> \o Join(toks, delim) \o <<RBracket>>

WithSpace == <<Comma, Space>>
WithoutSpace == <<Comma>>

\* Messages that are no clean rendering of a token list.
OddMessages ==
    {<<>>,
     <<"reasons", LBracket, "None", RBracket>>,
     <<"reasons", Space, LBracket, "None", Comma, "None", Comma, Space, "None", RBracket>>,
     <<"reasons", Space, LBracket, "None", Space, "None", Comma, "None", RBracket>>,
     <<"reasons", Space, LBracket, "None", ":", "None", RBracket>>,
     <<"reasons", Space, LBracket, Comma, Space, RBracket, LBracket, "None", RBracket>>,
     <<"reasons", Space, LBracket, "None", Comma, Comma, "None", RBracket>>}

\* The error response of a canceled transaction, with and without a message.
ResponseWith(m) == [Error |-> [Code |-> "TransactionCanceledException", Message |-> m]]

OddResponses ==
    {ResponseWith(m) : m \in OddMessages}
    \cup {[Error |-> [Code |-> "TransactionCanceledException"]], <<>>}

NotRendered == [rendered |-> FALSE, pre |-> <<>>, toks |-> <<>>, delim |-> <<>>]

\* The exception types `has_error` is asked about: two of the table and the
\* base type.
TxTypes == {"ConditionalCheckFailedException", "ValidationError", ClientError}

---------------------------------------------------------------------------
(* SpecTx: one TransactionCanceledException. *)

ReasonsUnset == [isNone |-> TRUE, list |-> <<>>]

NoCall ==
    [call |-> "init", arg |-> "", raised |-> "", list |-> <<>>, bool |-> FALSE,
     parsed |-> FALSE]

\* `__init__`: keeps a copy of op_args, parses nothing.
TxInit ==
    /\ e_op_args \in {[i \in 1..k |-> i] : k \in 0..MaxOps}
    /\ \/ \E pre \in Preambles, toks \in SeqsUpTo(Tokens, MaxTokens),
             d \in {WithSpace, WithoutSpace} :
             /\ e_response = ResponseWith(Render(pre, toks, d))
             /\ e_sent = [rendered |-> TRUE, pre |-> pre, toks |-> toks, delim |-> d]
       \/ /\ e_response \in OddResponses
          /\ e_sent = NotRendered
    /\ e_reasons = ReasonsUnset
    /\ e_out = NoCall
    /\ KeysIdle
    /\ StripIdle
    /\ FacadeIdle
    /\ ValuesIdle
    /\ CallersIdle

\* The `reasons` property: parse on first use, keep the list.  `r` is what
\* `_get_reasons` gives, `parsed` whether it was called.
ReasonsWithWhenFalsy(reasons_field, r) ==
    IF reasons_field.isNone \/ reasons_field.list = <<>>
    THEN [raised |-> r.raised,
          list |-> r.list,
          parsed |-> TRUE,
          field |-> IF r.raised = "" THEN [isNone |-> FALSE, list |-> r.list]
                    ELSE reasons_field]
    ELSE [raised |-> "", list |-> reasons_field.list, parsed |-> FALSE,
          field |-> reasons_field]

ReasonsWith(reasons_field, r) ==
    IF reasons_field.isNone
    THEN [raised |-> r.raised,
          list |-> r.list,
          parsed |-> TRUE,
          field |-> IF r.raised = "" THEN [isNone |-> FALSE, list |-> r.list]
                    ELSE reasons_field]
    ELSE [raised |-> "", list |-> reasons_field.list, parsed |-> FALSE,
          field |-> reasons_field]

ReasonsProperty(reasons_field, op_args, response) ==
    ReasonsWith(reasons_field, GetReasons(op_args, response))

\* One read of `e.reasons`; r is the outcome of the property.
AccessReasonsWith(r) ==
    /\ e_reasons' = r.field
    /\ e_out' = [call |-> "reasons", arg |-> "", raised |-> r.raised,
                 list |-> r.list, bool |-> FALSE, parsed |-> r.parsed]
    /\ UNCHANGED <<e_op_args, e_response, e_sent, keyvars, stripvars, facvars, valvars, runvars>>

AccessReasons == AccessReasonsWith(ReasonsProperty(e_reasons, e_op_args, e_response))

\* One call of `e.has_error(exception)`; r is the outcome of `self.reasons`.
HasErrorWith(exception, r) ==
    /\ e_reasons' = r.field
    /\ e_out' = [call |-> "has_error", arg |-> exception, raised |-> r.raised,
                 list |-> <<>>,
                 bool |-> IF r.raised = "" THEN HasErrorScan(r.list, exception)
                          ELSE FALSE,
                 parsed |-> r.parsed]
    /\ UNCHANGED <<e_op_args, e_response, e_sent, keyvars, stripvars, facvars, valvars, runvars>>

HasError(exception) ==
    HasErrorWith(exception, ReasonsProperty(e_reasons, e_op_args, e_response))

TxNext ==
    \/ AccessReasons
    \/ \E t \in TxTypes : HasError(t)

SpecTx == TxInit /\ [][TxNext]_vars

---------------------------------------------------------------------------
(* SpecKeys: two entity keys, compared, serialized and read back. *)

\* Entity kinds of an application, by class name: `Us`, `US` and `S1_`.
EntityNames == {<<"U", "s">>, <<"U", "S">>, <<"S", "1", "_">>}

ValueChars == {"U", "#", "a", "\n"}

KeyValues == SeqsUpTo(ValueChars, MaxValueLen)

TableName == "my-table"

\* The item PutArg writes for a key: the key attributes and the stamp.
StoredItem(pk, sk, primary_index) ==
    [a \in {"CreatedAt"} \cup DOMAIN PrimaryKeySerialize(pk, sk, primary_index) |->
        IF a \in DOMAIN PrimaryKeySerialize(pk, sk, primary_index)
        THEN PrimaryKeySerialize(pk, sk, primary_index)[a]
        ELSE [S |-> <<"1", "-", "1", "T", "1", ":", "1">>]]

KeysInit ==
    /\ \E na \in EntityNames, va \in KeyValues, nb \in EntityNames,
          ta \in {"PartitionKey", "SortKey"}, tb \in {"PartitionKey", "SortKey"} :
          \E vb \in {va, <<"a">>, <<>>} :
             /\ k_args = <<[variant |-> ta, name |-> na, value |-> va],
                           [variant |-> tb, name |-> nb, value |-> vb]>>
             /\ k_a = EntityKey(ta, na, va)
             /\ k_b = EntityKey(tb, nb, vb)
    /\ k_out = NoKeyCall
    /\ TxIdle
    /\ StripIdle
    /\ FacadeIdle
    /\ ValuesIdle
    /\ CallersIdle

\* str(), == and hash() on the two keys.
Compare ==
    /\ k_out' = [call |-> "compare",
                 str_a |-> EntityKeyStr(k_a),
                 str_b |-> EntityKeyStr(k_b),
                 eq |-> EntityKeyEq(k_a, k_b),
                 hash_a |-> EntityKeyHash(k_a),
                 hash_b |-> EntityKeyHash(k_b)]
    /\ UNCHANGED <<k_args, k_a, k_b, txvars, stripvars, facvars, valvars, runvars>>

\* ==, and hash(), of PrimaryKey(k_a, k_b) with another PrimaryKey and with
\* the 2-tuple of the other's string forms.
ComparePrimaryWith(key, other, other_args) ==
    /\ k_out' = [call |-> "compare_primary",
                 other_args |-> other_args,
                 eq_key |-> PrimaryKeyEq(key, other, TRUE),
                 eq_tuple |-> PrimaryKeyEq(key, PrimaryKeyTuple(other), FALSE),
                 hash |-> PrimaryKeyHash(key),
                 hash_other |-> PrimaryKeyHash(other),
                 hash_tuple |-> TupleHash(PrimaryKeyTuple(other))]
    /\ UNCHANGED <<k_args, k_a, k_b, txvars, stripvars, facvars, valvars, runvars>>

ComparePrimary(pk_args, sk_args) ==
    /\ k_a.variant = "PartitionKey"
    /\ k_b.variant = "SortKey"
    /\ ComparePrimaryWith(PrimaryKey(k_a, k_b),
                          PrimaryKey(EntityKey("PartitionKey", pk_args.name, pk_args.value),
                                     EntityKey("SortKey", sk_args.name, sk_args.value)),
                          <<pk_args, sk_args>>)

\* The keys another PrimaryKey is built from: the same arguments again, or
\* other ones.
OtherKeyArgs(args) ==
    {[name |-> args.name, value |-> args.value],
     [name |-> <<"S", "1", "_">>, value |-> <<"a">>]}

\* PrimaryKey(k_a, k_b).serialize(index).
Serialize(index) ==
    /\ k_a.variant = "PartitionKey"
    /\ k_b.variant = "SortKey"
    /\ k_out' = [call |-> "serialize", index |-> index,
                 item |-> PrimaryKeySerialize(k_a, k_b, index),
                 des |-> DeserializeDict(PrimaryKeySerialize(k_a, k_b, index))]
    /\ UNCHANGED <<k_args, k_a, k_b, txvars, stripvars, facvars, valvars, runvars>>

\* A read of the item stored under PrimaryKey(k_a, k_b): what the facade
\* returns for the store's response.
ReadGet(index) ==
    /\ k_a.variant = "PartitionKey"
    /\ k_b.variant = "SortKey"
    /\ k_out' = [call |-> "get", index |-> index,
                 res |-> GetResult([Item |-> StoredItem(k_a, k_b, index)])]
    /\ UNCHANGED <<k_args, k_a, k_b, txvars, stripvars, facvars, valvars, runvars>>

ReadQuery(index) ==
    /\ k_a.variant = "PartitionKey"
    /\ k_b.variant = "SortKey"
    /\ k_out' = [call |-> "query", index |-> index,
                 res |-> QueryResult([Items |-> <<StoredItem(k_a, k_b, index)>>])]
    /\ UNCHANGED <<k_args, k_a, k_b, txvars, stripvars, facvars, valvars, runvars>>

ReadBatchGet(index) ==
    /\ k_a.variant = "PartitionKey"
    /\ k_b.variant = "SortKey"
    /\ k_out' = [call |-> "batch_get", index |-> index,
                 res |-> BatchGetItems(
                            [Responses |-> [t \in {TableName} |->
                                               <<StoredItem(k_a, k_b, index)>>]],
                            TableName)]
    /\ UNCHANGED <<k_args, k_a, k_b, txvars, stripvars, facvars, valvars, runvars>>

KeysNext ==
    \/ Compare
    \/ \E pk_args \in OtherKeyArgs(k_args[1]), sk_args \in OtherKeyArgs(k_args[2]) :
          ComparePrimary(pk_args, sk_args)
    \/ \E index \in {PrimaryGlobalIndex, InversePrimaryIndex, TestIndex} : Serialize(index)
    \/ \E index \in {PrimaryGlobalIndex, TestIndex} : ReadGet(index)
    \/ \E index \in {PrimaryGlobalIndex, TestIndex} : ReadQuery(index)
    \/ \E index \in {PrimaryGlobalIndex, TestIndex} : ReadBatchGet(index)

SpecKeys == KeysInit /\ [][KeysNext]_vars

---------------------------------------------------------------------------
(* SpecStrip: _remove_entity_prefix applied to a string, again and again. *)

StripChars == {"U", "#", "a", "\n"}

StripInit ==
    /\ s_in \in SeqsUpTo(StripChars, MaxStrLen)
    /\ s_cur = s_in
    /\ s_n = 0
    /\ TxIdle
    /\ KeysIdle
    /\ FacadeIdle
    /\ ValuesIdle
    /\ CallersIdle

Strip ==
    /\ s_n < MaxStrips
    /\ s_cur' = RemoveEntityPrefix(s_cur)
    /\ s_n' = s_n + 1
    /\ UNCHANGED <<s_in, txvars, keyvars, facvars, valvars, runvars>>

StripNext == Strip

SpecStrip == StripInit /\ [][StripNext]_vars

---------------------------------------------------------------------------
(* dokklib_db/op_args.py: the op-args and the keyword arguments they build. *)

\* Python's `{**a, **b}`: the keys of both, b's value where both have one.
Merge(a, b) ==
    [k \in DOMAIN a \cup DOMAIN b |-> IF k \in DOMAIN b THEN b[k] ELSE a[k]]

\* An absent optional argument (None), and the empty dict.
NoAttributes == <<>>

NoIndex == [name |-> "", partition_key |-> "", sort_key |-> ""]

\* `QueryArg._max_limit`.
MaxLimit == 1000

\* The condition expressions, as lexemes.
AttributeExistsPK == <<"attribute_exists", "(", "PK", ")">>

AttributeNotExistsPK == <<"attribute_not_exists", "(", "PK", ")">>

\* `OpArg._iso_now`: the UTC clock without its fraction of a second, in ISO
\* format; the clock is read in ticks, the date and the minute stay.
IsoNowNoTruncation(ticks) == <<"1", "-", "1", "T", "1", ":">> \o NatStr(ticks)

IsoNow(ticks) == <<"1", "-", "1", "T", "1", ":">> \o NatStr(ticks \div TicksPerSecond)

\* `OpArg._serialize_primary_key`.
SerializePrimaryKey(primary_index, pk, sk) == PrimaryKeySerialize(pk, sk, primary_index)

\* The constructors: what each op-arg keeps.
DeleteArg(pk, sk, idempotent) ==
    [cls |-> "DeleteArg", op_name |-> "Delete", pk |-> pk, sk |-> sk,
     idempotent |-> idempotent]

GetArg(pk, sk, attributes, consistent) ==
    [cls |-> "GetArg", op_name |-> "Get", pk |-> pk, sk |-> sk,
     attributes |-> attributes, consistent |-> consistent]

PutArg(pk, sk, attributes, allow_overwrite) ==
    [cls |-> "PutArg", op_name |-> "Put", pk |-> pk, sk |-> sk,
     attributes |-> attributes, allow_overwrite |-> allow_overwrite]

InsertArg(pk, sk, attributes) ==
    [cls |-> "InsertArg", op_name |-> "Put", pk |-> pk, sk |-> sk,
     attributes |-> attributes, allow_overwrite |-> FALSE]

UpdateArg(pk, sk, attr_updates) ==
    [cls |-> "UpdateArg", op_name |-> "Update", pk |-> pk, sk |-> sk,
     attr_updates |-> attr_updates]

\* `QueryArg.__init__`: the limit is refused only when above the maximum.
\* An optional limit is a record: None, or the integer n.
NoLimit == [isNone |-> TRUE, n |-> 0]

LimitOf(n) == [isNone |-> FALSE, n |-> n]

QueryArgRefusingMax(key_condition, global_index, attributes, consistent, limit) ==
    [cls |-> "QueryArg", op_name |-> "Query",
     raised |-> IF ~limit.isNone /\ limit.n >= MaxLimit THEN "ValueError" ELSE "",
     key_cond |-> key_condition, global_index |-> global_index,
     attributes |-> attributes, consistent |-> consistent,
     limit |-> IF limit.isNone THEN MaxLimit ELSE limit.n]

QueryArg(key_condition, global_index, attributes, consistent, limit) ==
    [cls |-> "QueryArg", op_name |-> "Query",
     raised |-> IF ~limit.isNone /\ limit.n > MaxLimit THEN "ValueError" ELSE "",
     key_cond |-> key_condition, global_index |-> global_index,
     attributes |-> attributes, consistent |-> consistent,
     limit |-> IF limit.isNone THEN MaxLimit ELSE limit.n]

\* `DeleteArg.get_kwargs`.
DeleteArgGetKwargsAlwaysGuarded(arg, table_name, primary_index) ==
    [TableName |-> table_name,
     Key |-> SerializePrimaryKey(primary_index, arg.pk, arg.sk),
     ConditionExpression |-> AttributeExistsPK]

DeleteArgGetKwargs(arg, table_name, primary_index) ==
    Merge([TableName |-> table_name,
           Key |-> SerializePrimaryKey(primary_index, arg.pk, arg.sk)],
          IF ~arg.idempotent THEN [ConditionExpression |-> AttributeExistsPK] ELSE <<>>)

\* `PutArg._get_dynamo_item` and `UpdateArg._get_attr_updates`: the stamp over
\* the caller's attributes.
StampedWithCallerFirst(attributes, stamp) ==
    IF DOMAIN attributes # {} THEN Merge(stamp, attributes) ELSE stamp

\* `GetArg.get_kwargs`: attributes is a list of names.
Projection(attributes) ==
    [ProjectionExpression |-> Join([i \in 1..Len(attributes) |-> <<attributes[i]>>], <<",">>)]

GetArgGetKwargs(arg, table_name, primary_index) ==
    Merge([TableName |-> table_name,
           Key |-> SerializePrimaryKey(primary_index, arg.pk, arg.sk),
           ConsistentRead |-> arg.consistent],
          IF Len(arg.attributes) > 0 THEN Projection(arg.attributes) ELSE <<>>)

\* `PutArg._get_dynamo_item`: the stamp over the caller's attributes, the key
\* attributes over both.
StampedWith(attributes, stamp) ==
    IF DOMAIN attributes # {} THEN Merge(attributes, stamp) ELSE stamp

GetDynamoItemCallerWins(arg, primary_index, now) ==
    Merge(SerializePrimaryKey(primary_index, arg.pk, arg.sk),
          SerializeDict(StampedWith(arg.attributes, [CreatedAt |-> PyStr(now)])))

GetDynamoItem(arg, primary_index, now) ==
    Merge(SerializeDict(StampedWith(arg.attributes, [CreatedAt |-> PyStr(now)])),
          SerializePrimaryKey(primary_index, arg.pk, arg.sk))

\* `PutArg.get_kwargs` (InsertArg inherits it).
PutArgGetKwargs(arg, table_name, primary_index, now) ==
    Merge([TableName |-> table_name, Item |-> GetDynamoItem(arg, primary_index, now)],
          IF ~arg.allow_overwrite THEN [ConditionExpression |-> AttributeNotExistsPK]
          ELSE <<>>)

\* `UpdateArg._get_attr_updates` and `UpdateArg.get_kwargs`.
GetAttrUpdates(arg, now) ==
    [k \in DOMAIN StampedWith(arg.attr_updates, [UpdatedAt |-> PyStr(now)]) |->
        [Action |-> "PUT",
         Value |-> SerializeVal(StampedWith(arg.attr_updates, [UpdatedAt |-> PyStr(now)])[k])]]

UpdateArgGetKwargs(arg, table_name, primary_index, now) ==
    [TableName |-> table_name,
     Key |-> SerializePrimaryKey(primary_index, arg.pk, arg.sk),
     AttributeUpdates |-> GetAttrUpdates(arg, now)]

\* A key condition of boto3: `Key(n0).eq(v0)`, alone or with
\* `& Key(n1).begins_with(v1)`, and what ConditionExpressionBuilder makes of it.
KeyEq(name, value) == [form |-> "eq", names |-> <<name>>, values |-> <<value>>]

KeyEqAndBeginsWith(name, value, sk_name, sk_value) ==
    [form |-> "eq_begins_with", names |-> <<name, sk_name>>, values |-> <<value, sk_value>>]

SerializeKeyCondition(key_cond) ==
    [condition_expression |->
        IF key_cond.form = "eq" THEN "#n0 = :v0"
        ELSE "(#n0 = :v0 AND begins_with(#n1, :v1))",
     attribute_name_placeholders |->
        [i \in 1..Len(key_cond.names) |-> key_cond.names[i]],
     attribute_value_placeholders |->
        [i \in 1..Len(key_cond.values) |-> PyStr(key_cond.values[i])]]

\* `QueryArg.get_kwargs`; placeholder i stands for #n(i-1) and :v(i-1).
QueryArgGetKwargs(arg, table_name, primary_index) ==
    Merge(Merge([TableName |-> table_name,
                 Select |-> "SPECIFIC_ATTRIBUTES",
                 KeyConditionExpression |->
                     SerializeKeyCondition(arg.key_cond).condition_expression,
                 ExpressionAttributeNames |->
                     SerializeKeyCondition(arg.key_cond).attribute_name_placeholders,
                 ExpressionAttributeValues |->
                     [i \in 1..Len(arg.key_cond.values) |->
                         SerializeVal(SerializeKeyCondition(arg.key_cond).attribute_value_placeholders[i])],
                 ConsistentRead |-> arg.consistent,
                 Limit |-> arg.limit],
                IF Len(arg.attributes) > 0 THEN Projection(arg.attributes)
                ELSE [ProjectionExpression |-> <<"SK">>]),
          IF arg.global_index # NoIndex THEN [IndexName |-> arg.global_index.name]
          ELSE <<>>)

\* `get_kwargs` of whichever op-arg it is called on.
GetKwargs(arg, table_name, primary_index, now) ==
    IF arg.cls = "DeleteArg" THEN DeleteArgGetKwargs(arg, table_name, primary_index)
    ELSE IF arg.cls = "UpdateArg" THEN UpdateArgGetKwargs(arg, table_name, primary_index, now)
    ELSE PutArgGetKwargs(arg, table_name, primary_index, now)

---------------------------------------------------------------------------
(* dokklib_db/table.py: turning a failure of the client into an exception. *)

\* The names the errors package binds to exception classes; every one of
\* them derives from ClientError.
ErrClasses ==
    {ClientError, "TransactionCanceledException"}
    \cup {CodesToExceptions[c] : c \in DOMAIN CodesToExceptions}

\* `_get_error_code`.
GetErrorCode(error) ==
    DictGet(DictGet(error.response, "Error", <<>>), "Code", "None")

\* `ClientError.__init__`: the message, the response and the operation name.
NewClientError(type, message, error_response, operation_name) ==
    [type |-> type, message |-> message, response |-> error_response,
     operation_name |-> operation_name, op_args |-> <<>>]

\* `TransactionCanceledException.__init__`: the op-args first, the rest is
\* handed to ClientError.
NewTransactionCanceled(op_args, message, error_response, operation_name) ==
    [type |-> "TransactionCanceledException", message |-> message,
     response |-> error_response, operation_name |-> operation_name,
     op_args |-> op_args]

\* A call that does not fit the constructor it reaches.
TypeErrorRaised ==
    [type |-> "TypeError", message |-> <<>>, response |-> <<>>,
     operation_name |-> "", op_args |-> <<>>]

NoException ==
    [type |-> "", message |-> <<>>, response |-> <<>>,
     operation_name |-> "", op_args |-> <<>>]

\* `_get_exception`: the class of that name in the errors package, or
\* ClientError; the class is called with three positional arguments, one
\* fewer than TransactionCanceledException takes.
GetExceptionAlwaysBase(code, error) ==
    NewClientError(ClientError, error.message, error.response, error.operation_name)

GetExceptionFor(code, error) ==
    IF code = "TransactionCanceledException" THEN TypeErrorRaised
    ELSE NewClientError(IF code \in ErrClasses THEN code ELSE ClientError,
                        error.message, error.response, error.operation_name)

GetException(error) == GetExceptionFor(GetErrorCode(error), error)

\* `_dispatch_error`.
DispatchError(error) == GetException(error)

\* `_dispatch_transaction_error`.
Reversed(s) == [i \in 1..Len(s) |-> s[Len(s) + 1 - i]]

DispatchTransactionErrorReversing(op_args, error) ==
    IF GetErrorCode(error) = "TransactionCanceledException"
    THEN NewTransactionCanceled(Reversed(op_args), error.message, error.response,
                                error.operation_name)
    ELSE GetException(error)

DispatchTransactionError(op_args, error) ==
    IF GetErrorCode(error) = "TransactionCanceledException"
    THEN NewTransactionCanceled(op_args, error.message, error.response,
                                error.operation_name)
    ELSE GetException(error)

---------------------------------------------------------------------------
(* The remote store behind the client: one table with a partition and a  *)
(* sort key attribute, conditions evaluated atomically with the write    *)
(* (tests/integration/dynamodb_tests.py runs the facade against it).     *)

NoItem == <<>>

\* The error the client raises: botocore's ClientError with its message,
\* `An error occurred (code) when calling the op operation: message`.
BotoClientError(error_response, operation_name) ==
    [message |-> <<"An error occurred",
                   DictGet(DictGet(error_response, "Error", <<>>), "Code", "Unknown"),
                   operation_name,
                   DictGet(DictGet(error_response, "Error", <<>>), "Message", <<"Unknown">>)>>,
     response |-> error_response,
     operation_name |-> operation_name]

\* What one call of the client comes to.
Done(response, db) ==
    [ok |-> TRUE, error |-> BotoClientError(<<>>, ""), response |-> response, db |-> db]

Failed(db, code, message, operation_name) ==
    [ok |-> FALSE,
     error |-> BotoClientError([Error |-> [Code |-> code, Message |-> message]],
                               operation_name),
     response |-> <<>>, db |-> db]

\* The (partition, sort) strings of an item or of a key.
StoreKey(item, schema) == <<item[schema.partition_key].S, item[schema.sort_key].S>>

\* A condition on the item the write addresses; no item has no attribute.
CondHolds(expr, item) ==
    IF expr[1] = "attribute_exists" THEN expr[3] \in DOMAIN item
    ELSE expr[3] \notin DOMAIN item

ConditionPasses(kwargs, existing) ==
    \/ "ConditionExpression" \notin DOMAIN kwargs
    \/ CondHolds(kwargs.ConditionExpression, existing)

StorePutItem(db, schema, kwargs) ==
    IF ConditionPasses(kwargs, db[StoreKey(kwargs.Item, schema)])
    THEN Done(<<>>, [db EXCEPT ![StoreKey(kwargs.Item, schema)] = kwargs.Item])
    ELSE Failed(db, "ConditionalCheckFailedException", <<"The conditional request failed">>, "PutItem")

StoreDeleteItem(db, schema, kwargs) ==
    IF ConditionPasses(kwargs, db[StoreKey(kwargs.Key, schema)])
    THEN Done(<<>>, [db EXCEPT ![StoreKey(kwargs.Key, schema)] = NoItem])
    ELSE Failed(db, "ConditionalCheckFailedException", <<"The conditional request failed">>, "DeleteItem")

\* AttributeUpdates with action PUT: set on the item, created from its key
\* when there is none.
Updated(existing, kwargs) ==
    Merge(IF DOMAIN existing = {} THEN kwargs.Key ELSE existing,
          [k \in DOMAIN kwargs.AttributeUpdates |-> kwargs.AttributeUpdates[k].Value])

StoreUpdateItem(db, schema, kwargs) ==
    Done(<<>>, [db EXCEPT ![StoreKey(kwargs.Key, schema)] =
                              Updated(db[StoreKey(kwargs.Key, schema)], kwargs)])

\* The attributes a projection expression names.
ProjectionNames(expr) == {Split(expr, <<",">>)[i][1] : i \in 1..Len(Split(expr, <<",">>))}

Project(item, kwargs) ==
    IF "ProjectionExpression" \in DOMAIN kwargs
    THEN [a \in DOMAIN item \cap ProjectionNames(kwargs.ProjectionExpression) |-> item[a]]
    ELSE item

StoreGetItem(db, schema, kwargs) ==
    IF DOMAIN db[StoreKey(kwargs.Key, schema)] = {}
    THEN Done(<<>>, db)
    ELSE Done([Item |-> Project(db[StoreKey(kwargs.Key, schema)], kwargs)], db)

\* The keys the application of the model writes under: one partition key
\* and two sort keys, in the order of their string forms.
PKSeq == <<EntityKey("PartitionKey", <<"U", "s">>, <<"a">>)>>

SKSeq ==
    <<EntityKey("SortKey", <<"S", "1", "_">>, <<"a">>),
      EntityKey("SortKey", <<"U", "s">>, <<"a">>)>>

\* The places of the table, in the order a query lists them.
SlotSeq ==
    [i \in 1..(Len(PKSeq) * Len(SKSeq)) |->
        <<EntityKeyStr(PKSeq[((i - 1) \div Len(SKSeq)) + 1]),
          EntityKeyStr(SKSeq[((i - 1) % Len(SKSeq)) + 1])>>]

\* begins_with of a key condition.
IsPrefixOf(p, s) == Len(p) <= Len(s) /\ SubSeq(s, 1, Len(p)) = p

\* An item is in an index when it has both key attributes of the index.
Matches(item, idx, names, values) ==
    /\ {idx.partition_key, idx.sort_key} \subseteq DOMAIN item
    /\ item[names[1]].S = values[1].S
    /\ Len(names) = 2 => IsPrefixOf(values[2].S, item[names[2]].S)

FirstN(s, n) == SubSeq(s, 1, IF n < Len(s) THEN n ELSE Len(s))

MatchingSlots(db, idx, kwargs) ==
    LET Hit(slot) == Matches(db[slot], idx, kwargs.ExpressionAttributeNames,
                             kwargs.ExpressionAttributeValues)
    IN  FirstN(SelectSeq(SlotSeq, Hit), kwargs.Limit)

MatchingItems(db, slots, kwargs) ==
    [Items |-> [i \in 1..Len(slots) |-> Project(db[slots[i]], kwargs)]]

\* The key condition must name the key attributes of the index queried.
StoreQueryOn(db, idx, kwargs) ==
    IF /\ kwargs.ExpressionAttributeNames[1] = idx.partition_key
       /\ Len(kwargs.ExpressionAttributeNames) = 2
          => kwargs.ExpressionAttributeNames[2] = idx.sort_key
    THEN Done(MatchingItems(db, MatchingSlots(db, idx, kwargs), kwargs), db)
    ELSE Failed(db, "ValidationException", <<"Invalid request">>, "Query")

StoreQuery(db, schema, kwargs) ==
    StoreQueryOn(db, IF "IndexName" \in DOMAIN kwargs THEN InversePrimaryIndex ELSE schema,
                 kwargs)

\* batch_get_item: the first nproc keys are processed, the others reported
\* back; an empty list of keys and a key given twice are refused.
NoDuplicates(s) == \A i, j \in 1..Len(s) : s[i] = s[j] => i = j

FoundKeys(db, schema, keys) ==
    LET There(key) == DOMAIN db[StoreKey(key, schema)] # {}
    IN  SelectSeq(keys, There)

BatchResponse(db, schema, request, table_name, done, rest) ==
    [Responses |->
        [t \in {table_name} |->
            [i \in 1..Len(FoundKeys(db, schema, done)) |->
                Project(db[StoreKey(FoundKeys(db, schema, done)[i], schema)], request)]],
     UnprocessedKeys |->
        IF Len(rest) = 0 THEN <<>>
        ELSE [t \in {table_name} |-> [Keys |-> rest]]]

StoreBatchGetItem(db, schema, request_items, table_name, nproc) ==
    IF /\ Len(request_items[table_name].Keys) > 0
       /\ NoDuplicates(request_items[table_name].Keys)
    THEN Done(BatchResponse(db, schema, request_items[table_name], table_name,
                            FirstN(request_items[table_name].Keys, nproc),
                            SubSeq(request_items[table_name].Keys,
                                   (IF nproc < Len(request_items[table_name].Keys)
                                    THEN nproc ELSE Len(request_items[table_name].Keys)) + 1,
                                   Len(request_items[table_name].Keys))),
              db)
    ELSE Failed(db, "ValidationException", <<"Invalid request">>, "BatchGetItem")

\* transact_write_items: every entry is {op_name: kwargs}; all conditions are
\* evaluated, then all writes are made or none is.
EntryOp(entry) == CHOOSE n \in DOMAIN entry : TRUE

EntryKwargs(entry) == entry[EntryOp(entry)]

EntryKey(entry, schema) ==
    IF "Item" \in DOMAIN EntryKwargs(entry)
    THEN StoreKey(EntryKwargs(entry).Item, schema)
    ELSE StoreKey(EntryKwargs(entry).Key, schema)

EntryPasses(db, schema, entry) ==
    ConditionPasses(EntryKwargs(entry), db[EntryKey(entry, schema)])

ApplyEntry(db, schema, entry) ==
    IF EntryOp(entry) = "Put" THEN StorePutItem(db, schema, EntryKwargs(entry)).db
    ELSE IF EntryOp(entry) = "Delete" THEN StoreDeleteItem(db, schema, EntryKwargs(entry)).db
    ELSE StoreUpdateItem(db, schema, EntryKwargs(entry)).db

RECURSIVE ApplyEntries(_, _, _)
ApplyEntries(db, schema, items) ==
    IF Len(items) = 0 THEN db
    ELSE ApplyEntries(ApplyEntry(db, schema, items[1]), schema, Tail(items))

\* The reason tokens of a canceled transaction, one per entry.
CancellationTokens(db, schema, items) ==
    [i \in 1..Len(items) |->
        IF EntryPasses(db, schema, items[i]) THEN <<"None">>
        ELSE <<"ConditionalCheckFailed">>]

CancellationMessage(toks) ==
    <<"Transaction", Space, "cancelled", Comma, Space, "please", Space, "refer", Space,
      "cancellation", Space, "reasons", Space, "for", Space, "specific", Space,
      "reasons", Space, LBracket>> \o Join(toks, <<Comma, Space>>) \o <<RBracket>>

StoreTransactWriteItems(db, schema, items) ==
    IF ~(/\ Len(items) > 0
         /\ NoDuplicates([i \in 1..Len(items) |-> EntryKey(items[i], schema)]))
    THEN Failed(db, "ValidationException", <<"Invalid request">>, "TransactWriteItems")
    ELSE IF \A i \in 1..Len(items) : EntryPasses(db, schema, items[i])
    THEN Done(<<>>, ApplyEntries(db, schema, items))
    ELSE Failed(db, "TransactionCanceledException",
                CancellationMessage(CancellationTokens(db, schema, items)),
                "TransactWriteItems")

\* A failure of the client that does not come from the request: a code with
\* a class of its own, a code without one, a response without a code, and
\* for a transaction its cancellation.
Faults ==
    {"ProvisionedThroughputExceededException", "ConditionalCheckFailedException",
     "InternalServerError", "<no code>"}

NoFault == ""

FaultRaised(db, fault, operation_name) ==
    IF fault = "<no code>"
    THEN [ok |-> FALSE, response |-> <<>>, db |-> db,
          error |-> BotoClientError([Error |-> [Message |-> <<"failed">>]], operation_name)]
    ELSE Failed(db, fault,
                IF fault = "TransactionCanceledException"
                THEN CancellationMessage(<< <<"ConditionalCheckFailed">>, <<"None">> >>)
                ELSE <<"failed">>,
                operation_name)

---------------------------------------------------------------------------
(* Spec: one Table in front of the store; every action is one call of a  *)
(* facade operation, from building the request to returning or raising.  *)

PKs == {PKSeq[i] : i \in 1..Len(PKSeq)}

SKs == {SKSeq[i] : i \in 1..Len(SKSeq)}

PrimaryKeys == {PrimaryKey(pk, sk) : pk \in PKs, sk \in SKs}

\* Partition keys to query with: the table's, and one of the other kind.
QueryPKs == PKs \cup {EntityKey("PartitionKey", <<"S", "1", "_">>, <<"a">>)}

PrefixSortKeys ==
    {EntityKey("PrefixSortKey", <<"U", "s">>, <<>>),
     EntityKey("PrefixSortKey", <<"S", "1", "_">>, <<"a">>)}

\* What `_iso_now` gives during a run.
Nows == {<<"1", "-", "1", "T", "1", ":", "1">>}

\* The attributes callers pass: none, or one of their own.
AttributeChoices == {NoAttributes, [Foo |-> PyStr(<<"b">>)]}

\* The op-args callers put into a transaction.
TxOpArgs ==
    {InsertArg(PKSeq[1], sk, NoAttributes) : sk \in SKs}
    \cup {DeleteArg(PKSeq[1], SKSeq[1], FALSE)}

NoResult == [found |-> FALSE, items |-> <<>>]

\* `Table.__init__`, and the table of the store before anything is written.
Init ==
    /\ t_primary_index \in {PrimaryGlobalIndex, TestIndex}
    /\ db_items = [s \in {SlotSeq[i] : i \in 1..Len(SlotSeq)} |-> NoItem]
    /\ t_call = [op |-> "init"]
    /\ t_out = [op |-> "init"]
    /\ TxIdle
    /\ KeysIdle
    /\ StripIdle
    /\ ValuesIdle
    /\ CallersIdle

\* The store serving one operation of the client.
Serve(operation_name, db, schema, request, nproc) ==
    CASE operation_name = "PutItem" -> StorePutItem(db, schema, request)
      [] operation_name = "UpdateItem" -> StoreUpdateItem(db, schema, request)
      [] operation_name = "DeleteItem" -> StoreDeleteItem(db, schema, request)
      [] operation_name = "GetItem" -> StoreGetItem(db, schema, request)
      [] operation_name = "Query" -> StoreQuery(db, schema, request)
      [] operation_name = "BatchGetItem" ->
            StoreBatchGetItem(db, schema, request, TableName, nproc)
      [] operation_name = "TransactWriteItems" ->
            StoreTransactWriteItems(db, schema, request)

\* The one call of the client an operation makes.
ClientCall(fault, operation_name, request, nproc) ==
    IF fault = NoFault
    THEN Serve(operation_name, db_items, t_primary_index, request, nproc)
    ELSE FaultRaised(db_items, fault, operation_name)

\* `batch_get` after the call: key_map maps each key, and the string pair
\* equal to it, to the key last given.
KeyMapGet(keys, key_tuple) ==
    keys[MaxOf({i \in 1..Len(keys) : PrimaryKeyTuple(keys[i]) = key_tuple})]

UnprocKeysReversed(unproc, keys, primary_index) ==
    Reversed([i \in 1..Len(unproc) |->
                KeyMapGet(keys, <<DeserializeVal(unproc[i][primary_index.partition_key]).v,
                                  DeserializeVal(unproc[i][primary_index.sort_key]).v>>)])

UnprocKeys(unproc, keys, primary_index) ==
    [i \in 1..Len(unproc) |->
        KeyMapGet(keys, <<DeserializeVal(unproc[i][primary_index.partition_key]).v,
                          DeserializeVal(unproc[i][primary_index.sort_key]).v>>)]

BatchGetResult(res, table_name, keys, primary_index) ==
    [found |-> TRUE,
     items |-> BatchGetItems(res, table_name).items,
     unprocessed_keys |->
        UnprocKeys(DictGet(DictGet(DictGet(res, "UnprocessedKeys", <<>>), table_name, <<>>),
                           "Keys", <<>>),
                   keys, primary_index)]

\* What the `with self._dispatch_error():` (for a transaction,
\* `with self._dispatch_transaction_error(op_args):`) around the call raises.
Raised(call, res) ==
    IF res.ok THEN NoException
    ELSE IF call.op = "transact_write_items"
    THEN DispatchTransactionError(call.op_args, res.error)
    ELSE DispatchError(res.error)

\* What the operation returns from the response.
ResultOf(call, res) ==
    IF ~res.ok THEN NoResult
    ELSE IF call.op = "get" THEN GetResult(res.response)
    ELSE IF call.op \in {"query", "query_prefix"} THEN QueryResult(res.response)
    ELSE IF call.op = "batch_get"
    THEN BatchGetResult(res.response, TableName, call.keys, t_primary_index)
    ELSE NoResult

\* The end of an operation: what the caller gets and what the store holds.
Returned(call, request, res) ==
    /\ t_call' = call
    /\ db_items' = res.db
    /\ t_out' = [op |-> call.op, ok |-> res.ok, error |-> res.error,
                 raised |-> Raised(call, res), result |-> ResultOf(call, res),
                 request |-> request, response |-> res.response]
    /\ UNCHANGED <<t_primary_index, txvars, keyvars, stripvars, valvars, runvars>>

\* An operation from its request on: the call, then the return or the raise.
Invoke(call, operation_name, request, nproc, fault) ==
    Returned(call, request, ClientCall(fault, operation_name, request, nproc))

\* `put` and `insert`, through `_put_item`.
Put(pk, sk, attributes, allow_overwrite, now, fault) ==
    Invoke([op |-> "put", pk |-> pk, sk |-> sk, attributes |-> attributes,
            allow_overwrite |-> allow_overwrite],
           "PutItem",
           PutArgGetKwargs(PutArg(pk, sk, attributes, allow_overwrite),
                           TableName, t_primary_index, now),
           0, fault)

Insert(pk, sk, attributes, now, fault) ==
    Invoke([op |-> "insert", pk |-> pk, sk |-> sk, attributes |-> attributes],
           "PutItem",
           PutArgGetKwargs(InsertArg(pk, sk, attributes), TableName, t_primary_index, now),
           0, fault)

\* `update_attributes`, through `_update_item`.
UpdateAttributes(pk, sk, attributes, now, fault) ==
    Invoke([op |-> "update_attributes", pk |-> pk, sk |-> sk, attributes |-> attributes],
           "UpdateItem",
           UpdateArgGetKwargs(UpdateArg(pk, sk, attributes), TableName, t_primary_index, now),
           0, fault)

\* `delete`.
Delete(pk, sk, idempotent, fault) ==
    Invoke([op |-> "delete", pk |-> pk, sk |-> sk, idempotent |-> idempotent],
           "DeleteItem",
           DeleteArgGetKwargs(DeleteArg(pk, sk, idempotent), TableName, t_primary_index),
           0, fault)

\* `get`.
Get(pk, sk, attributes, fault) ==
    Invoke([op |-> "get", pk |-> pk, sk |-> sk, attributes |-> attributes],
           "GetItem",
           GetArgGetKwargs(GetArg(pk, sk, attributes, FALSE), TableName, t_primary_index),
           0, fault)

\* `query`, with the key condition Key(<partition attribute>).eq(str(pk)),
\* through `_query`.
Query(pk, limit, fault) ==
    Invoke([op |-> "query", pk |-> pk, limit |-> limit],
           "Query",
           QueryArgGetKwargs(
               QueryArg(KeyEq(t_primary_index.partition_key, EntityKeyStr(pk)),
                        NoIndex, <<>>, FALSE, limit),
               TableName, t_primary_index),
           0, fault)

\* `query_prefix`: the names of the index queried, the sort attribute as the
\* default projection.
QueryPrefixOn(pk, sk, global_index, limit, fault, idx) ==
    Invoke([op |-> "query_prefix", pk |-> pk, sk |-> sk,
            global_index |-> global_index, limit |-> limit],
           "Query",
           QueryArgGetKwargs(
               QueryArg(KeyEqAndBeginsWith(idx.partition_key, EntityKeyStr(pk),
                                           idx.sort_key, EntityKeyStr(sk)),
                        global_index, <<idx.sort_key>>, FALSE, limit),
               TableName, t_primary_index),
           0, fault)

QueryPrefixPrimaryNames(pk, sk, global_index, limit, fault) ==
    QueryPrefixOn(pk, sk, global_index, limit, fault, t_primary_index)

QueryPrefix(pk, sk, global_index, limit, fault) ==
    QueryPrefixOn(pk, sk, global_index, limit, fault,
                  IF global_index # NoIndex THEN global_index ELSE t_primary_index)

\* `batch_get`: the projection is joined from a set, in whatever order the
\* set gives; the store leaves the keys after the first nproc unprocessed.
BatchGetRequest(keys, attr_s) ==
    [t \in {TableName} |->
        [Keys |-> [i \in 1..Len(keys) |->
                      PrimaryKeySerialize(keys[i].pk, keys[i].sk, t_primary_index)],
         ProjectionExpression |-> Projection(attr_s).ProjectionExpression,
         ConsistentRead |-> FALSE]]

BatchGet(keys, attributes, attr_s, nproc, fault) ==
    Invoke([op |-> "batch_get", keys |-> keys, attributes |-> attributes],
           "BatchGetItem", BatchGetRequest(keys, attr_s), nproc, fault)

\* `transact_write_items`.
TransactItemsReversed(op_args, now) ==
    Reversed([i \in 1..Len(op_args) |->
                [n \in {op_args[i].op_name} |->
                    GetKwargs(op_args[i], TableName, t_primary_index, now)]])

TransactItems(op_args, now) ==
    [i \in 1..Len(op_args) |->
        [n \in {op_args[i].op_name} |->
            GetKwargs(op_args[i], TableName, t_primary_index, now)]]

TransactWriteItems(op_args, now, fault) ==
    Invoke([op |-> "transact_write_items", op_args |-> op_args], "TransactWriteItems",
           TransactItems(op_args, now), 0, fault)

\* `attr_s` of `batch_get`: the caller's attributes and the two key
\* attributes, as a set.
AttrSet(attributes) ==
    {attributes[i] : i \in 1..Len(attributes)}
    \cup {t_primary_index.partition_key, t_primary_index.sort_key}

\* The orders a set of names can be joined in.
JoinOrders(names) ==
    {s \in [1..Cardinality(names) -> names] : \A i, j \in DOMAIN s : s[i] = s[j] => i = j}

OpsNext(faults, transaction_faults) ==
    \/ \E pk \in PKs, sk \in SKs, a \in AttributeChoices, ow \in BOOLEAN,
          now \in Nows, fault \in faults :
          Put(pk, sk, a, ow, now, fault)
    \/ \E pk \in PKs, sk \in SKs, a \in AttributeChoices,
          now \in Nows, fault \in faults :
          Insert(pk, sk, a, now, fault)
    \/ \E pk \in PKs, sk \in SKs, now \in Nows, fault \in faults :
          UpdateAttributes(pk, sk, [Foo |-> PyStr(<<"c">>)], now, fault)
    \/ \E pk \in PKs, sk \in SKs, idempotent \in BOOLEAN, fault \in faults :
          Delete(pk, sk, idempotent, fault)
    \/ \E pk \in PKs, sk \in SKs, attributes \in {<<>>, <<"Foo">>}, fault \in faults :
          Get(pk, sk, attributes, fault)
    \/ \E pk \in QueryPKs, limit \in {NoLimit, LimitOf(1)}, fault \in faults :
          Query(pk, limit, fault)
    \/ \E pk \in QueryPKs, sk \in PrefixSortKeys,
          global_index \in {NoIndex, InversePrimaryIndex}, fault \in faults :
          QueryPrefix(pk, sk, global_index, NoLimit, fault)
    \/ \E keys \in SeqsUpTo(PrimaryKeys, MaxKeys), attributes \in {<<>>},
          fault \in faults :
          \E nproc \in 0..Len(keys), attr_s \in JoinOrders(AttrSet(attributes)) :
             BatchGet(keys, attributes, attr_s, nproc, fault)
    \/ \E op_args \in SeqsUpTo(TxOpArgs, MaxOps), now \in Nows,
          fault \in transaction_faults :
          TransactWriteItems(op_args, now, fault)

\* The client reaches the store.
Next == OpsNext({NoFault}, {NoFault})

Spec == Init /\ [][Next]_vars

\* SpecErr: the same operations with a client whose every call fails.
ErrNext == OpsNext(Faults, Faults \cup {"TransactionCanceledException"})

SpecErr == Init /\ [][ErrNext]_vars

---------------------------------------------------------------------------
(* SpecBatch: batch_get on a table that already holds items, with every  *)
(* attribute list and every order the set of names can be joined in.     *)

\* The table after `put` of the keys held, each with the same attributes.
TableHolding(held, attributes, primary_index) ==
    [slot \in {SlotSeq[i] : i \in 1..Len(SlotSeq)} |->
        IF \E key \in held : PrimaryKeyTuple(key) = slot
        THEN GetDynamoItem(
                 PutArg((CHOOSE key \in held : PrimaryKeyTuple(key) = slot).pk,
                        (CHOOSE key \in held : PrimaryKeyTuple(key) = slot).sk,
                        attributes, TRUE),
                 primary_index, CHOOSE now \in Nows : TRUE)
        ELSE NoItem]

BatchInit ==
    /\ t_primary_index \in {PrimaryGlobalIndex, TestIndex}
    /\ \E held \in SUBSET PrimaryKeys, attributes \in AttributeChoices :
          db_items = TableHolding(held, attributes, t_primary_index)
    /\ t_call = [op |-> "init"]
    /\ t_out = [op |-> "init"]
    /\ TxIdle
    /\ KeysIdle
    /\ StripIdle
    /\ ValuesIdle
    /\ CallersIdle

BatchNext ==
    \E keys \in SeqsUpTo(PrimaryKeys, MaxKeys), attributes \in {<<>>, <<"Foo">>} :
       \E nproc \in 0..Len(keys), attr_s \in JoinOrders(AttrSet(attributes)) :
          BatchGet(keys, attributes, attr_s, nproc, NoFault)

SpecBatch == BatchInit /\ [][BatchNext]_vars

---------------------------------------------------------------------------
(* SpecData: items written with attributes of the caller and read back. *)

\* The strings callers store: a plain one, one that looks like a key, one
\* with a `#` after lower-case letters.
DataValues == {<<"b">>, <<"U", "#", "a">>, <<"a", "#", "b">>}

DataAttributes == {[Foo |-> PyStr(v)] : v \in DataValues}

DataNext ==
    \/ \E pk \in PKs, sk \in SKs, a \in DataAttributes, now \in Nows :
          Put(pk, sk, a, TRUE, now, NoFault)
    \/ \E pk \in PKs, sk \in SKs, a \in DataAttributes, now \in Nows :
          Insert(pk, sk, a, now, NoFault)
    \/ \E pk \in PKs, sk \in SKs, attributes \in {<<>>, <<"Foo">>} :
          Get(pk, sk, attributes, NoFault)

SpecData == Init /\ [][DataNext]_vars

---------------------------------------------------------------------------
(* SpecSteps and SpecRace: the facade operations step by step.  A caller  *)
(* first has the request built (get_kwargs reads the clock), then makes   *)
(* the call on the client; the clock ticks and other callers run in       *)
(* between.  The store serves each call atomically.                       *)

StepsInit ==
    /\ t_primary_index \in {PrimaryGlobalIndex, TestIndex}
    /\ db_items = [s \in {SlotSeq[i] : i \in 1..Len(SlotSeq)} |-> NoItem]
    /\ t_call = [op |-> "init"]
    /\ t_out = [op |-> "init"]
    /\ CallersIdle
    /\ TxIdle
    /\ KeysIdle
    /\ StripIdle
    /\ ValuesIdle

\* The clock moves on.
Tick ==
    /\ utc_now < MaxTicks
    /\ utc_now' = utc_now + 1
    /\ UNCHANGED <<p_pc, p_call, p_calls, p_out, txvars, keyvars, stripvars, facvars, valvars>>

\* The operation is entered and its request built, all but the call.
Prepared(p, call, operation_name, request) ==
    /\ p_pc[p] = "idle"
    /\ p_pc' = [p_pc EXCEPT ![p] = "built"]
    /\ p_call' = [p_call EXCEPT ![p] =
                     call @@ [operation_name |-> operation_name, request |-> request,
                              built_at |-> <<utc_now>>]]
    /\ UNCHANGED <<utc_now, p_calls, p_out, txvars, keyvars, stripvars, facvars, valvars>>

\* `put` and `insert` up to the call in `_put_item`.
BeginPut(p, pk, sk, attributes, allow_overwrite) ==
    Prepared(p, [op |-> "put", pk |-> pk, sk |-> sk, attributes |-> attributes,
                 allow_overwrite |-> allow_overwrite],
             "PutItem",
             PutArgGetKwargs(PutArg(pk, sk, attributes, allow_overwrite),
                             TableName, t_primary_index, IsoNow(utc_now)))

BeginInsert(p, pk, sk, attributes) ==
    Prepared(p, [op |-> "insert", pk |-> pk, sk |-> sk, attributes |-> attributes],
             "PutItem",
             PutArgGetKwargs(InsertArg(pk, sk, attributes), TableName, t_primary_index,
                             IsoNow(utc_now)))

\* `update_attributes` up to the call in `_update_item`.
BeginUpdateAttributes(p, pk, sk, attributes) ==
    Prepared(p, [op |-> "update_attributes", pk |-> pk, sk |-> sk,
                 attributes |-> attributes],
             "UpdateItem",
             UpdateArgGetKwargs(UpdateArg(pk, sk, attributes), TableName, t_primary_index,
                                IsoNow(utc_now)))

BeginDelete(p, pk, sk, idempotent) ==
    Prepared(p, [op |-> "delete", pk |-> pk, sk |-> sk, idempotent |-> idempotent],
             "DeleteItem",
             DeleteArgGetKwargs(DeleteArg(pk, sk, idempotent), TableName, t_primary_index))

BeginGet(p, pk, sk, attributes) ==
    Prepared(p, [op |-> "get", pk |-> pk, sk |-> sk, attributes |-> attributes],
             "GetItem",
             GetArgGetKwargs(GetArg(pk, sk, attributes, FALSE), TableName, t_primary_index))

BeginQuery(p, pk, limit) ==
    Prepared(p, [op |-> "query", pk |-> pk, limit |-> limit],
             "Query",
             QueryArgGetKwargs(
                 QueryArg(KeyEq(t_primary_index.partition_key, EntityKeyStr(pk)),
                          NoIndex, <<>>, FALSE, limit),
                 TableName, t_primary_index))

BeginQueryPrefix(p, pk, sk, global_index) ==
    Prepared(p, [op |-> "query_prefix", pk |-> pk, sk |-> sk,
                 global_index |-> global_index],
             "Query",
             QueryArgGetKwargs(
                 QueryArg(KeyEqAndBeginsWith(
                              (IF global_index # NoIndex THEN global_index
                               ELSE t_primary_index).partition_key,
                              EntityKeyStr(pk),
                              (IF global_index # NoIndex THEN global_index
                               ELSE t_primary_index).sort_key,
                              EntityKeyStr(sk)),
                          global_index,
                          <<(IF global_index # NoIndex THEN global_index
                             ELSE t_primary_index).sort_key>>,
                          FALSE, NoLimit),
                 TableName, t_primary_index))

BeginBatchGet(p, keys, attributes, attr_s) ==
    Prepared(p, [op |-> "batch_get", keys |-> keys, attributes |-> attributes],
             "BatchGetItem", BatchGetRequest(keys, attr_s))

\* `transact_write_items` is entered with its op-args; the loop then asks
\* them for their keyword arguments one by one.
BeginTransact(p, op_args) ==
    /\ p_pc[p] = "idle"
    /\ p_pc' = [p_pc EXCEPT ![p] = IF Len(op_args) = 0 THEN "built" ELSE "building"]
    /\ p_call' = [p_call EXCEPT ![p] =
                     [op |-> "transact_write_items", op_args |-> op_args,
                      operation_name |-> "TransactWriteItems", request |-> <<>>,
                      built_at |-> <<>>]]
    /\ UNCHANGED <<utc_now, p_calls, p_out, txvars, keyvars, stripvars, facvars, valvars>>

\* One turn of that loop.
NextEntry(call, now) ==
    [n \in {call.op_args[Len(call.request) + 1].op_name} |->
        GetKwargs(call.op_args[Len(call.request) + 1], TableName, t_primary_index, now)]

BuildEntry(p) ==
    /\ p_pc[p] = "building"
    /\ p_call' = [p_call EXCEPT ![p] =
                     [@ EXCEPT !.request = Append(@, NextEntry(p_call[p], IsoNow(utc_now))),
                               !.built_at = Append(@, utc_now)]]
    /\ p_pc' = [p_pc EXCEPT ![p] =
                   IF Len(p_call[p].request) + 1 = Len(p_call[p].op_args)
                   THEN "built" ELSE "building"]
    /\ UNCHANGED <<utc_now, p_calls, p_out, txvars, keyvars, stripvars, facvars, valvars>>

\* The call on the client inside the `with` block, and what the operation
\* returns or raises after it.
Called(p, res, then) ==
    /\ p_pc' = [p_pc EXCEPT ![p] = then]
    /\ p_calls' = [p_calls EXCEPT ![p] =
                      Append(@, [operation_name |-> p_call[p].operation_name,
                                 request |-> p_call[p].request, at |-> utc_now])]
    /\ db_items' = res.db
    /\ p_out' = [p_out EXCEPT ![p] =
                    [op |-> p_call[p].op, ok |-> res.ok,
                     raised |-> Raised(p_call[p], res),
                     result |-> ResultOf(p_call[p], res),
                     response |-> res.response]]
    /\ UNCHANGED <<utc_now, p_call, t_primary_index, t_call, t_out,
                   txvars, keyvars, stripvars, valvars>>

\* A facade that made the call again after a failure.
CallRetrying(p, nproc, fault) ==
    /\ p_pc[p] = "built"
    /\ Called(p, ClientCall(fault, p_call[p].operation_name, p_call[p].request, nproc),
              IF ClientCall(fault, p_call[p].operation_name, p_call[p].request, nproc).ok
              THEN "done" ELSE "built")

Call(p, nproc, fault) ==
    /\ p_pc[p] = "built"
    /\ Called(p, ClientCall(fault, p_call[p].operation_name, p_call[p].request, nproc),
              "done")

\* The keys of a batch_get the store may process.
Processable(call) == IF call.op = "batch_get" THEN 0..Len(call.keys) ELSE {0}

\* The failures a call may meet.
StepFaults(call) ==
    {NoFault, "ProvisionedThroughputExceededException"}
    \cup IF call.op = "transact_write_items" THEN {"TransactionCanceledException"} ELSE {}

\* SpecSteps: one caller and every operation of the facade.
StepsNext ==
    \/ Tick
    \/ \E sk \in SKs, ow \in BOOLEAN : BeginPut(1, PKSeq[1], sk, NoAttributes, ow)
    \/ \E sk \in SKs : BeginInsert(1, PKSeq[1], sk, NoAttributes)
    \/ \E sk \in SKs : BeginUpdateAttributes(1, PKSeq[1], sk, [Foo |-> PyStr(<<"c">>)])
    \/ \E sk \in SKs, idempotent \in BOOLEAN : BeginDelete(1, PKSeq[1], sk, idempotent)
    \/ \E sk \in SKs : BeginGet(1, PKSeq[1], sk, <<>>)
    \/ \E pk \in QueryPKs : BeginQuery(1, pk, NoLimit)
    \/ \E sk \in PrefixSortKeys, global_index \in {NoIndex, InversePrimaryIndex} :
          BeginQueryPrefix(1, PKSeq[1], sk, global_index)
    \/ \E keys \in SeqsUpTo(PrimaryKeys, MaxKeys) :
          BeginBatchGet(1, keys, <<>>,
                        <<t_primary_index.partition_key, t_primary_index.sort_key>>)
    \/ \E op_args \in SeqsUpTo(TxOpArgs, MaxOps) : BeginTransact(1, op_args)
    \/ BuildEntry(1)
    \/ \E nproc \in Processable(p_call[1]), fault \in StepFaults(p_call[1]) :
          Call(1, nproc, fault)

SpecSteps == StepsInit /\ [][StepsNext]_vars

\* SpecRace: two callers, each inserting once, each with attributes that
\* tell who wrote.
RaceAttributes(p) ==
    {[Foo |-> PyStr(NatStr(p))],
     [Foo |-> PyStr(NatStr(p)), Bar |-> PyStr(<<"b">>)]}

RaceNext ==
    \E p \in Callers :
       \/ \E sk \in SKs, a \in RaceAttributes(p) : BeginInsert(p, PKSeq[1], sk, a)
       \/ Call(p, 0, NoFault)

SpecRace == StepsInit /\ [][RaceNext]_vars

---------------------------------------------------------------------------
(* SpecValues: one dict of generic values, handed to the codec and to     *)
(* _strip_prefixes.                                                       *)

ScalarValues ==
    {PyStr(<<"b">>), PyStr(<<"U", "#", "a">>), PyBool(TRUE), PyBool(FALSE),
     PyInt(0), PyInt(7), PyInt(0 - 10), PyBytes(<<"x">>), PyNull}

\* Lists, sets of strings and string-keyed maps of scalars.
FlatValues ==
    {PyList(l) : l \in SeqsUpTo(ScalarValues, MaxListLen)}
    \cup {PySet(m) : m \in SUBSET {PyStr(<<"b">>), PyStr(<<"U", "#", "a">>)}}
    \cup {PyDict(<<>>)}
    \cup {PyDict([k \in {"k"} |-> x]) : x \in ScalarValues}

\* Lists and maps of those.
NestedValues ==
    {PyList(<<x>>) : x \in FlatValues} \cup {PyDict([k \in {"k"} |-> x]) : x \in FlatValues}

SupportedValues == ScalarValues \cup FlatValues \cup NestedValues

\* Values for an item of two attributes.
PairValues ==
    {PyStr(<<"b">>), PyStr(<<"U", "#", "a">>), PyInt(7),
     PyList(<<PyStr(<<"U", "#", "a">>)>>),
     PyDict([k \in {"k"} |-> PyStr(<<"U", "#", "a">>)])}

ValueItems ==
    {<<>>} \cup [{"Foo"} -> SupportedValues] \cup [{"Foo", "Bar"} -> PairValues]

ValuesInit ==
    /\ v_item \in ValueItems
    /\ v_out = [call |-> "init"]
    /\ TxIdle
    /\ KeysIdle
    /\ StripIdle
    /\ FacadeIdle
    /\ CallersIdle

\* The end of a call made with the dict: what it was given, what it
\* returned, and the dict of the caller afterwards.
ValueCall(call, given, item, res) ==
    /\ v_item' = item
    /\ v_out' = [call |-> call, given |-> given, res |-> res]
    /\ UNCHANGED <<txvars, keyvars, stripvars, facvars, runvars>>

\* serialize_dict(v_item).
SerializeDictCall ==
    ValueCall("serialize_dict", v_item, v_item, SerializeDict(v_item))

\* deserialize_dict of what serialize_dict returned.
DeserializeDictCall ==
    /\ v_out.call = "serialize_dict"
    /\ ValueCall("deserialize_dict", v_out.res, v_item, DeserializeDict(v_out.res))

\* _strip_prefixes(v_item).
StripPrefixesOf(given, heap) ==
    ValueCall("_strip_prefixes", given, heap.item, heap.item_copy)

StripItem == StripPrefixesOf(v_item, StripPrefixesCall(v_item))

ValuesNext ==
    \/ SerializeDictCall
    \/ DeserializeDictCall
    \/ StripItem

SpecValues == ValuesInit /\ [][ValuesNext]_vars

---------------------------------------------------------------------------
(* SpecArgs: the op-args on their own; every action builds one op-arg and *)
(* asks it for its keyword arguments, with t_primary_index the index it   *)
(* is asked with.                                                         *)

\* The attributes callers pass: none, their own, and ones named like the
\* stamps and like the key attributes.
ArgAttributes ==
    {NoAttributes,
     [Foo |-> PyStr(<<"b">>)],
     [CreatedAt |-> PyStr(<<"x">>), Foo |-> PyStr(<<"b">>)],
     [UpdatedAt |-> PyStr(<<"x">>)],
     [PK |-> PyStr(<<"x">>), SK |-> PyStr(<<"y">>), Foo |-> PyStr(<<"b">>)],
     ("my-pk-name" :> PyStr(<<"x">>)) @@ [Foo |-> PyStr(<<"b">>)]}

ArgNows == Nows \cup {<<"2", "-", "2", "T", "2", ":", "2">>}

\* The limits callers pass: none, and integers around zero and around the
\* maximum.
ArgLimits ==
    {NoLimit, LimitOf(-1), LimitOf(0), LimitOf(1), LimitOf(MaxLimit - 1), LimitOf(MaxLimit),
     LimitOf(MaxLimit + 1), LimitOf(2 * MaxLimit)}

ArgsInit ==
    /\ t_primary_index \in {PrimaryGlobalIndex, TestIndex}
    /\ db_items = <<>>
    /\ t_call = [op |-> "init"]
    /\ t_out = [op |-> "init"]
    /\ TxIdle
    /\ KeysIdle
    /\ StripIdle
    /\ ValuesIdle
    /\ CallersIdle

\* The op-arg built and what `get_kwargs` gave.
Built(call, raised, kwargs) ==
    /\ t_call' = call
    /\ t_out' = [op |-> call.op, raised |-> raised, kwargs |-> kwargs]
    /\ UNCHANGED <<t_primary_index, db_items, txvars, keyvars, stripvars, valvars, runvars>>

BuildPut(pk, sk, attributes, allow_overwrite, now) ==
    Built([op |-> "PutArg", pk |-> pk, sk |-> sk, attributes |-> attributes,
           allow_overwrite |-> allow_overwrite, now |-> now],
          "",
          PutArgGetKwargs(PutArg(pk, sk, attributes, allow_overwrite),
                          TableName, t_primary_index, now))

BuildInsert(pk, sk, attributes, now) ==
    Built([op |-> "InsertArg", pk |-> pk, sk |-> sk, attributes |-> attributes,
           now |-> now],
          "",
          PutArgGetKwargs(InsertArg(pk, sk, attributes), TableName, t_primary_index, now))

BuildUpdate(pk, sk, attr_updates, now) ==
    Built([op |-> "UpdateArg", pk |-> pk, sk |-> sk, attributes |-> attr_updates,
           now |-> now],
          "",
          UpdateArgGetKwargs(UpdateArg(pk, sk, attr_updates), TableName,
                             t_primary_index, now))

BuildDelete(pk, sk, idempotent) ==
    Built([op |-> "DeleteArg", pk |-> pk, sk |-> sk, idempotent |-> idempotent],
          "",
          DeleteArgGetKwargs(DeleteArg(pk, sk, idempotent), TableName, t_primary_index))

BuildGet(pk, sk, attributes, consistent) ==
    Built([op |-> "GetArg", pk |-> pk, sk |-> sk, attributes |-> attributes,
           consistent |-> consistent],
          "",
          GetArgGetKwargs(GetArg(pk, sk, attributes, consistent), TableName,
                          t_primary_index))

\* QueryArg: the constructor may raise, and then there is no op-arg to ask.
BuildQueryWith(call, arg) ==
    Built(call, arg.raised,
          IF arg.raised = "" THEN QueryArgGetKwargs(arg, TableName, t_primary_index)
          ELSE <<>>)

BuildQuery(pk, global_index, attributes, limit) ==
    BuildQueryWith([op |-> "QueryArg", pk |-> pk, global_index |-> global_index,
                    attributes |-> attributes, limit |-> limit],
                   QueryArg(KeyEq((IF global_index # NoIndex THEN global_index
                                   ELSE t_primary_index).partition_key,
                                  EntityKeyStr(pk)),
                            global_index, attributes, FALSE, limit))

ArgsNext ==
    \/ \E pk \in PKs, sk \in SKs, a \in ArgAttributes, ow \in BOOLEAN, now \in ArgNows :
          BuildPut(pk, sk, a, ow, now)
    \/ \E pk \in PKs, sk \in SKs, a \in ArgAttributes, now \in ArgNows :
          BuildInsert(pk, sk, a, now)
    \/ \E pk \in PKs, sk \in SKs, a \in ArgAttributes, now \in ArgNows :
          BuildUpdate(pk, sk, a, now)
    \/ \E pk \in PKs, sk \in SKs, idempotent \in BOOLEAN :
          BuildDelete(pk, sk, idempotent)
    \/ \E pk \in PKs, sk \in SKs, attributes \in {<<>>, <<"Foo">>, <<"Foo", "Bar">>},
          consistent \in BOOLEAN :
          BuildGet(pk, sk, attributes, consistent)
    \/ \E pk \in QueryPKs, global_index \in {NoIndex, InversePrimaryIndex},
          attributes \in {<<>>, <<"Foo">>}, limit \in ArgLimits :
          BuildQuery(pk, global_index, attributes, limit)

SpecArgs == ArgsInit /\ [][ArgsNext]_vars

---------------------------------------------------------------------------
(* Properties of SpecTx. *)

\* The reasons entry the documentation promises for one token.
ExpectedReason(tok) ==
    CASE tok = <<"None">> -> PyNone
      [] tok = <<"ConditionalCheckFailed">> -> "ConditionalCheckFailedException"
      [] tok = <<"ItemCollectionSizeLimitExceeded">> -> "ItemCollectionSizeLimitExceededException"
      [] tok = <<"TransactionConflict">> -> "TransactionConflictException"
      [] tok = <<"ProvisionedThroughputExceeded">> -> "ProvisionedThroughputExceededException"
      [] tok = <<"ThrottlingError">> -> "ThrottlingError"
      [] tok = <<"ValidationError">> -> "ValidationError"
      [] OTHER -> "ClientError"

OtherDelim(d) == IF d = WithSpace THEN WithoutSpace ELSE WithSpace

\* C1: when the message holds a bracketed list of k one-word reason tokens
\* and the transaction had k op-args, `reasons` returns exactly k entries,
\* entry i being None for the token None, the mapped exception type for one
\* of the six codes and ClientError for any other token, in the tokens' order.
C1_ReasonsAligned ==
    (/\ e_out.call = "reasons"
     /\ e_sent.rendered
     /\ Len(e_sent.toks) = Len(e_op_args))
    => /\ e_out.raised = ""
       /\ Len(e_out.list) = Len(e_op_args)
       /\ \A i \in 1..Len(e_op_args) : e_out.list[i] = ExpectedReason(e_sent.toks[i])

C1_Witness ==
    /\ e_out.call = "reasons"
    /\ e_sent.rendered
    /\ e_sent.pre # <<>>
    /\ e_sent.delim = WithSpace
    /\ e_sent.toks = << <<"InternalServerError">>, <<"TransactionConflict">> >>
    /\ Len(e_op_args) = 2
    /\ e_out.list = <<"ClientError", "TransactionConflictException">>

\* C2: when the number of tokens parsed from the message differs from the
\* number of op-args, reading `reasons` raises ValueError, returns no list
\* and stores none; with no op-args and an empty message it returns [].
C2_MismatchRaises ==
    e_out.call = "reasons"
    => /\ (Len(ExtractReasons(MessageOf(e_response))) # Len(e_op_args))
            => (e_out.raised = "ValueError" /\ e_out.list = <<>> /\ e_reasons.isNone)
       /\ (e_sent.rendered /\ Len(e_sent.toks) # Len(e_op_args))
            => e_out.raised = "ValueError"
       /\ ("Error" \notin DOMAIN e_response /\ Len(e_op_args) > 0)
            => e_out.raised = "ValueError"
       /\ (e_op_args = <<>> /\ MessageOf(e_response) = <<>>)
            => (e_out.raised = "" /\ e_out.list = <<>>)
       /\ e_out.raised = "" => Len(e_out.list) = Len(e_op_args)

C2_Witness ==
    /\ e_out.call = "reasons"
    /\ e_sent.rendered
    /\ Len(e_sent.toks) = 2
    /\ Len(e_op_args) = 1
    /\ e_out.raised = "ValueError"
    /\ e_reasons.isNone

\* C3: the message that separates the tokens with `, ` and the one that
\* separates them with `,` give the same outcome of `reasons` for the same
\* op-args.
C3_DelimiterInsensitive ==
    (e_out.call = "reasons" /\ e_sent.rendered)
    => LET other == GetReasons(e_op_args,
                       ResponseWith(Render(e_sent.pre, e_sent.toks,
                                           OtherDelim(e_sent.delim))))
       IN e_out.raised = other.raised /\ e_out.list = other.list

C3_Witness ==
    /\ e_out.call = "reasons"
    /\ e_sent.rendered
    /\ e_sent.delim = WithoutSpace
    /\ Len(e_sent.toks) = 2
    /\ Len(e_op_args) = 2
    /\ e_out.raised = ""
    /\ e_out.list = <<"ConditionalCheckFailedException", PyNone>>

\* C4: has_error(T) is true exactly when some position of the parsed reasons
\* list is T; it is false for every T when all positions are None.
C4_HasErrorIffPresent ==
    (e_out.call = "has_error" /\ e_out.raised = "")
    => /\ ~e_reasons.isNone
       /\ e_out.bool <=> (\E i \in 1..Len(e_reasons.list) : e_reasons.list[i] = e_out.arg)
       /\ (\A i \in 1..Len(e_reasons.list) : e_reasons.list[i] = PyNone) => ~e_out.bool
       /\ (e_sent.rendered /\ Len(e_sent.toks) = Len(e_op_args))
            => (e_out.bool <=> \E i \in 1..Len(e_sent.toks) :
                                   ExpectedReason(e_sent.toks[i]) = e_out.arg)

C4_Witness ==
    /\ e_out.call = "has_error"
    /\ e_out.raised = ""
    /\ e_reasons.list = <<PyNone, "ValidationError">>
    /\ e_out.arg = "ValidationError"
    /\ e_out.bool

\* C26: construction parses nothing; an access of `reasons` (has_error makes
\* one) calls _get_reasons exactly when no list is stored; the first access
\* that succeeds stores its list; from then on every access returns the
\* stored list, also an empty one, without parsing; an access that fails
\* stores nothing, and the next access fails the same way.
C26_ParsedAtMostOnce ==
    /\ e_out.call = "init" => (e_reasons.isNone /\ ~e_out.parsed /\ e_out.raised = "")
    /\ [][/\ e_out'.parsed <=> e_reasons.isNone
          /\ ~e_reasons.isNone
             => /\ e_reasons' = e_reasons
                /\ e_out'.raised = ""
                /\ e_out'.call = "reasons" => e_out'.list = e_reasons.list
          /\ (e_reasons.isNone /\ e_out'.raised = "" /\ e_out'.call = "reasons")
             => e_reasons' = [isNone |-> FALSE, list |-> e_out'.list]
          /\ e_out'.raised # ""
             => /\ e_out'.raised = "ValueError"
                /\ e_reasons.isNone
                /\ e_reasons'.isNone
          /\ e_out.raised # "" => e_out'.raised = e_out.raised]_vars

\* A second access of a stored empty list: no op-args and a message without
\* a list of reasons.
C26_Witness ==
    /\ e_op_args = <<>>
    /\ e_out.call = "reasons"
    /\ e_out.raised = ""
    /\ ~e_out.parsed
    /\ e_out.list = <<>>
    /\ e_reasons = [isNone |-> FALSE, list |-> <<>>]

---------------------------------------------------------------------------
(* Properties of SpecStrip and SpecKeys. *)

\* Whether a string starts with one or more characters of [A-Z0-9_] followed
\* by `#`.
StartsWithUpperPrefix(string) ==
    \E p \in 2..Len(string) :
        /\ string[p] = "#"
        /\ \A k \in 1..(p - 1) : string[k] \in {"U", "S", "1", "_"}

\* The prefix of each entity kind of the model, as the documentation writes
\* it: the class name in upper case, then `#`.
ExpectedPrefix(name) ==
    IF name = <<"S", "1", "_">> THEN <<"S", "1", "_", "#">> ELSE <<"U", "S", "#">>

\* C8: an item stored under PartitionKey(N, s) / SortKey(N, s) comes back
\* from get, query and batch_get with its partition and sort attributes equal
\* to exactly the values the keys were built with.
C8_ReadReturnsBareValue ==
    k_out.call \in {"get", "query", "batch_get"}
    => /\ k_out.res.found
       /\ k_out.res.items[1][k_out.index.partition_key] = PyStr(k_args[1].value)
       /\ k_out.res.items[1][k_out.index.sort_key] = PyStr(k_args[2].value)

\* C9: prefix stripping returns unchanged every string that does not start
\* with one or more characters of [A-Z0-9_] followed by `#`, however many
\* times it is applied.
C9_NoPrefixUnchanged ==
    ~StartsWithUpperPrefix(s_in) => s_cur = s_in

C9_Witness ==
    /\ s_n >= 2
    /\ s_in = <<"a", "#", "U">>
    /\ s_cur = s_in

\* C10: str(key) is the kind's prefix followed by the value; two keys, of the
\* same or of different variants, are equal exactly when their string forms
\* are equal, and equal keys have equal hashes.
C10_StrEqHash ==
    k_out.call = "compare"
    => /\ k_out.str_a = ExpectedPrefix(k_args[1].name) \o k_args[1].value
       /\ k_out.str_b = ExpectedPrefix(k_args[2].name) \o k_args[2].value
       /\ k_out.eq <=> (k_out.str_a = k_out.str_b)
       /\ k_out.eq => (k_out.hash_a = k_out.hash_b)

C10_Witness ==
    /\ k_out.call = "compare"
    /\ k_args[1].variant = "PartitionKey"
    /\ k_args[2].variant = "SortKey"
    /\ k_args[1].value = <<"a", "#">>
    /\ k_out.str_a = <<"U", "S", "#", "a", "#">>
    /\ k_out.eq
    /\ k_out.hash_a = k_out.hash_b

\* C11: keys of the same variant built from two distinct entity kinds and
\* the same value are not equal, and their string forms differ.
C11_DistinctKindsDistinctKeys ==
    (/\ k_out.call = "compare"
     /\ k_args[1].name # k_args[2].name
     /\ k_args[1].variant = k_args[2].variant
     /\ k_args[1].value = k_args[2].value)
    => /\ ~k_out.eq
       /\ k_out.str_a # k_out.str_b

\* C12: a PrimaryKey equals another PrimaryKey exactly when the partition
\* and the sort string forms are pairwise equal, equals the 2-tuple of string
\* forms under the same condition, and has the hash of the tuple of its own
\* string forms.
C12_PrimaryKeyEqHash ==
    k_out.call = "compare_primary"
    => /\ k_out.eq_key
          <=> /\ ExpectedPrefix(k_args[1].name) \o k_args[1].value
                    = ExpectedPrefix(k_out.other_args[1].name) \o k_out.other_args[1].value
              /\ ExpectedPrefix(k_args[2].name) \o k_args[2].value
                    = ExpectedPrefix(k_out.other_args[2].name) \o k_out.other_args[2].value
       /\ k_out.eq_tuple <=> k_out.eq_key
       /\ k_out.eq_key => /\ k_out.hash = k_out.hash_other
                          /\ k_out.hash = k_out.hash_tuple

\* Two PrimaryKeys of the same partition key and different sort keys.
C12_Witness ==
    /\ k_out.call = "compare_primary"
    /\ k_args[1].value = <<"a">>
    /\ k_out.other_args[1] = [name |-> k_args[1].name, value |-> k_args[1].value]
    /\ k_args[2].name = <<"U", "s">>
    /\ k_out.other_args[2].name = <<"S", "1", "_">>
    /\ ~k_out.eq_key
    /\ ~k_out.eq_tuple

\* C13: PrimaryKey(pk, sk).serialize(index) has exactly two entries, the
\* index's partition attribute holding the wire form of str(pk) and its sort
\* attribute the wire form of str(sk); deserialized, it gives the two string
\* forms back under those names.
C13_SerializeTwoEntries ==
    k_out.call = "serialize"
    => /\ DOMAIN k_out.item = {k_out.index.partition_key, k_out.index.sort_key}
       /\ Cardinality(DOMAIN k_out.item) = 2
       /\ k_out.item[k_out.index.partition_key]
             = [S |-> ExpectedPrefix(k_args[1].name) \o k_args[1].value]
       /\ k_out.item[k_out.index.sort_key]
             = [S |-> ExpectedPrefix(k_args[2].name) \o k_args[2].value]
       /\ DOMAIN k_out.des = DOMAIN k_out.item
       /\ k_out.des[k_out.index.partition_key]
             = [t |-> "str", v |-> ExpectedPrefix(k_args[1].name) \o k_args[1].value]
       /\ k_out.des[k_out.index.sort_key]
             = [t |-> "str", v |-> ExpectedPrefix(k_args[2].name) \o k_args[2].value]

\* Serialized for the inverse index, whose partition attribute is SK.
C13_Witness ==
    /\ k_out.call = "serialize"
    /\ k_out.index.partition_key = "SK"
    /\ k_args[1] = [variant |-> "PartitionKey", name |-> <<"U", "s">>, value |-> <<"a">>]
    /\ k_args[2] = [variant |-> "SortKey", name |-> <<"S", "1", "_">>, value |-> <<>>]
    /\ k_out.item = [SK |-> [S |-> <<"U", "S", "#", "a">>],
                     PK |-> [S |-> <<"S", "1", "_", "#">>]]

---------------------------------------------------------------------------
(* Properties of SpecErr and Spec. *)

\* The error classes the documentation of the errors names, besides the base
\* class.
KnownErrorClasses ==
    {"ConditionalCheckFailedException", "ItemCollectionSizeLimitExceededException",
     "TransactionConflictException", "ProvisionedThroughputExceededException",
     "ThrottlingError", "ValidationError", "TransactionCanceledException"}

\* The code the client failed with, as its response spells it.
SentCode(error) ==
    IF "Error" \in DOMAIN error.response /\ "Code" \in DOMAIN error.response.Error
    THEN error.response.Error.Code
    ELSE "<no code>"

\* The operation of the client each facade operation attempts.
AttemptedOperation(op) ==
    CASE op \in {"put", "insert"} -> "PutItem"
      [] op = "update_attributes" -> "UpdateItem"
      [] op = "delete" -> "DeleteItem"
      [] op = "get" -> "GetItem"
      [] op \in {"query", "query_prefix"} -> "Query"
      [] op = "batch_get" -> "BatchGetItem"
      [] op = "transact_write_items" -> "TransactWriteItems"

FacadeFailed == t_out.op # "init" /\ ~t_out.ok

\* C5: when transact_write_items fails with the code
\* TransactionCanceledException the facade raises a
\* TransactionCanceledException whose op_args are the caller's list in the
\* caller's order; with any other code it raises what a non-transactional
\* operation raises for that code.
C5_TransactionDispatch ==
    (FacadeFailed /\ t_out.op = "transact_write_items")
    => IF SentCode(t_out.error) = "TransactionCanceledException"
       THEN /\ t_out.raised.type = "TransactionCanceledException"
            /\ t_out.raised.op_args = t_call.op_args
       ELSE /\ t_out.raised.type =
                   IF SentCode(t_out.error) \in KnownErrorClasses
                   THEN SentCode(t_out.error) ELSE "ClientError"
            /\ t_out.raised.op_args = <<>>

C5_Witness ==
    /\ FacadeFailed
    /\ t_out.op = "transact_write_items"
    /\ SentCode(t_out.error) = "TransactionCanceledException"
    /\ Len(t_call.op_args) = 2
    /\ t_call.op_args[1].cls = "InsertArg"
    /\ t_call.op_args[2].cls = "DeleteArg"
    /\ t_out.raised.type = "TransactionCanceledException"
    /\ t_out.raised.op_args = t_call.op_args

\* C6: whatever operation fails and whatever code the client fails with, the
\* facade raises an error of the ClientError family: the class the code names
\* when it names one, ClientError otherwise (also when the response has no
\* code); the error carries the client's message, its response and the name
\* of the operation attempted.
C6_TypedErrors ==
    FacadeFailed
    => /\ t_out.raised.type \in KnownErrorClasses \cup {"ClientError"}
       /\ t_out.raised.type =
              IF SentCode(t_out.error) \in KnownErrorClasses
              THEN SentCode(t_out.error) ELSE "ClientError"
       /\ t_out.raised.message = t_out.error.message
       /\ t_out.raised.response = t_out.error.response
       /\ t_out.raised.operation_name = AttemptedOperation(t_out.op)

C6_Witness ==
    /\ FacadeFailed
    /\ t_out.op = "batch_get"
    /\ SentCode(t_out.error) = "<no code>"
    /\ t_out.raised.type = "ClientError"
    /\ t_out.raised.operation_name = "BatchGetItem"

\* C7: once insert(pk, sk) has succeeded, the next insert with the same
\* (pk, sk) fails with ConditionalCheckFailedException and leaves the table
\* as it is, and the next insert with the same pk and another, unused sk
\* succeeds; every insert sends the guard attribute_not_exists(PK).
C7_InsertIfAbsent ==
    [][(/\ t_out.op = "insert"
        /\ t_out.ok
        /\ t_call'.op = "insert")
       => /\ t_out'.request.ConditionExpression = <<"attribute_not_exists", "(", "PK", ")">>
          /\ (t_call'.pk = t_call.pk /\ t_call'.sk = t_call.sk)
             => /\ ~t_out'.ok
                /\ t_out'.raised.type = "ConditionalCheckFailedException"
                /\ db_items' = db_items
          /\ (/\ t_call'.pk = t_call.pk
              /\ t_call'.sk # t_call.sk
              /\ DOMAIN db_items[<<EntityKeyStr(t_call'.pk), EntityKeyStr(t_call'.sk)>>] = {})
             => t_out'.ok]_vars


\* C16: a delete request carries attribute_exists(PK) exactly when it is not
\* idempotent and a put request attribute_not_exists(PK) exactly when
\* overwriting is not allowed; a delete of an item the store does not hold
\* succeeds when idempotent and fails with ConditionalCheckFailedException
\* when not, and in both cases leaves the store as it is.
C16_ConditionalGuards ==
    [][/\ t_call'.op = "delete"
          => /\ "ConditionExpression" \in DOMAIN t_out'.request <=> ~t_call'.idempotent
             /\ ~t_call'.idempotent
                => t_out'.request.ConditionExpression = <<"attribute_exists", "(", "PK", ")">>
             /\ DOMAIN db_items[<<EntityKeyStr(t_call'.pk), EntityKeyStr(t_call'.sk)>>] = {}
                => /\ db_items' = db_items
                   /\ t_call'.idempotent => t_out'.ok
                   /\ ~t_call'.idempotent
                      => /\ ~t_out'.ok
                         /\ t_out'.raised.type = "ConditionalCheckFailedException"
       /\ t_call'.op = "put"
          => /\ "ConditionExpression" \in DOMAIN t_out'.request
                <=> ~t_call'.allow_overwrite
             /\ ~t_call'.allow_overwrite
                => t_out'.request.ConditionExpression
                     = <<"attribute_not_exists", "(", "PK", ")">>]_vars

\* A delete that is not idempotent, of an item the store does not hold.
C16_Witness ==
    /\ t_call.op = "delete"
    /\ ~t_call.idempotent
    /\ DOMAIN db_items[<<EntityKeyStr(t_call.pk), EntityKeyStr(t_call.sk)>>] = {}
    /\ \E slot \in DOMAIN db_items : DOMAIN db_items[slot] # {}
    /\ ~t_out.ok
    /\ t_out.raised.type = "ConditionalCheckFailedException"
    /\ t_out.request.ConditionExpression = <<"attribute_exists", "(", "PK", ")">>

\* C19: query_prefix sends the key condition
\* (#n0 = :v0 AND begins_with(#n1, :v1)) with #n0 / #n1 the partition / sort
\* attribute of the secondary index when one is given and of the table's
\* primary index otherwise, :v0 / :v1 the wire forms of str(pk) / str(sk),
\* and IndexName exactly when a secondary index is given.
C19_QueryPrefixCondition ==
    t_out.op = "query_prefix"
    => /\ t_out.request.KeyConditionExpression = "(#n0 = :v0 AND begins_with(#n1, :v1))"
       /\ t_out.request.ExpressionAttributeNames
             = IF t_call.global_index.name # ""
               THEN <<t_call.global_index.partition_key, t_call.global_index.sort_key>>
               ELSE <<t_primary_index.partition_key, t_primary_index.sort_key>>
       /\ t_out.request.ExpressionAttributeValues
             = <<[S |-> t_call.pk.prefix \o t_call.pk.value],
                 [S |-> t_call.sk.prefix \o t_call.sk.value]>>
       /\ "IndexName" \in DOMAIN t_out.request <=> t_call.global_index.name # ""
       /\ t_call.global_index.name # ""
          => t_out.request.IndexName = t_call.global_index.name

\* On the inverse index, with a table of the custom primary index.
C19_Witness ==
    /\ t_out.op = "query_prefix"
    /\ t_primary_index.partition_key = "my-pk-name"
    /\ t_call.global_index.name = "GSI_1"
    /\ t_out.request.ExpressionAttributeNames = <<"SK", "PK">>
    /\ t_out.request.ExpressionAttributeValues[2] = [S |-> <<"U", "S", "#">>]
    /\ t_out.request.IndexName = "GSI_1"

\* A string without its entity prefix: what follows the first `#` when the
\* string starts with characters of [A-Z0-9_] and `#`.
ExpectedStripped(string) ==
    IF StartsWithUpperPrefix(string)
    THEN SubSeq(string,
                (CHOOSE p \in 1..Len(string) :
                    string[p] = "#" /\ \A q \in 1..(p - 1) : string[q] # "#") + 1,
                Len(string))
    ELSE string

\* The keys a response of batch_get_item lists as unprocessed.
UnprocessedIn(response) ==
    IF TableName \in DOMAIN response.UnprocessedKeys
    THEN response.UnprocessedKeys[TableName].Keys
    ELSE <<>>

\* C20: after a batch_get, unprocessed_keys lists, in the order of the
\* response, keys the caller gave whose (partition, sort) string pairs are
\* the pairs the response lists as unprocessed; items are the items of the
\* response, in its order, with the prefixes stripped; and the projection
\* sent names the caller's attributes and always the partition and the sort
\* attribute of the primary index.
C20_BatchGetResult ==
    (t_out.op = "batch_get" /\ t_out.ok)
    => /\ Len(t_out.result.unprocessed_keys) = Len(UnprocessedIn(t_out.response))
       /\ \A i \in 1..Len(UnprocessedIn(t_out.response)) :
             /\ \E j \in 1..Len(t_call.keys) : t_out.result.unprocessed_keys[i] = t_call.keys[j]
             /\ UnprocessedIn(t_out.response)[i][t_primary_index.partition_key].S
                   = t_out.result.unprocessed_keys[i].pk.prefix
                     \o t_out.result.unprocessed_keys[i].pk.value
             /\ UnprocessedIn(t_out.response)[i][t_primary_index.sort_key].S
                   = t_out.result.unprocessed_keys[i].sk.prefix
                     \o t_out.result.unprocessed_keys[i].sk.value
       /\ Len(t_out.result.items) = Len(t_out.response.Responses[TableName])
       /\ \A i \in 1..Len(t_out.result.items) :
             /\ DOMAIN t_out.result.items[i] = DOMAIN t_out.response.Responses[TableName][i]
             /\ \A a \in DOMAIN t_out.result.items[i] :
                   t_out.result.items[i][a]
                     = [t |-> "str",
                        v |-> ExpectedStripped(t_out.response.Responses[TableName][i][a].S)]
       /\ {t_out.request[TableName].ProjectionExpression[n] :
             n \in {m \in DOMAIN t_out.request[TableName].ProjectionExpression : m % 2 = 1}}
             = {t_call.attributes[n] : n \in DOMAIN t_call.attributes}
               \cup {t_primary_index.partition_key, t_primary_index.sort_key}

\* Two keys asked for, the first returned and the second left unprocessed.
C20_Witness ==
    /\ t_out.op = "batch_get"
    /\ t_out.ok
    /\ Len(t_call.keys) = 2
    /\ t_call.attributes = <<"Foo">>
    /\ Len(t_out.result.items) = 1
    /\ t_out.result.items[1][t_primary_index.partition_key] = [t |-> "str", v |-> <<"a">>]
    /\ "Foo" \in DOMAIN t_out.result.items[1]
    /\ t_out.result.unprocessed_keys = <<t_call.keys[2]>>

\* The reasons the exception raised parses from its message.
RaisedReasons == GetReasons(t_out.raised.op_args, t_out.raised.response)

\* The item an op-arg addresses, as the store holds it.
AddressedItem(arg) == db_items[<<arg.pk.prefix \o arg.pk.value, arg.sk.prefix \o arg.sk.value>>]

\* C21: transact_write_items sends one entry per op-arg, in the caller's
\* order, entry i being {op_args[i].op_name: op_args[i].get_kwargs(...)}; when
\* the store cancels the transaction, position i of the reasons names a
\* failed condition exactly when the condition of op_args[i] fails on the
\* item op_args[i] addresses.
C21_TransactItemsAligned ==
    t_out.op = "transact_write_items"
    => /\ Len(t_out.request) = Len(t_call.op_args)
       /\ \A i \in 1..Len(t_call.op_args) :
             /\ DOMAIN t_out.request[i] = {t_call.op_args[i].op_name}
             /\ \E now \in Nows :
                   t_out.request[i][t_call.op_args[i].op_name]
                     = GetKwargs(t_call.op_args[i], TableName, t_primary_index, now)
       /\ t_out.raised.type = "TransactionCanceledException"
          => /\ RaisedReasons.raised = ""
             /\ Len(RaisedReasons.list) = Len(t_call.op_args)
             /\ \A i \in 1..Len(t_call.op_args) :
                   RaisedReasons.list[i] = "ConditionalCheckFailedException"
                   <=> ~ConditionPasses(t_out.request[i][t_call.op_args[i].op_name],
                                        AddressedItem(t_call.op_args[i]))

\* An insert that passes followed by a delete whose guard fails.
C21_Witness ==
    /\ t_out.op = "transact_write_items"
    /\ Len(t_call.op_args) = 2
    /\ t_call.op_args[1].cls = "InsertArg"
    /\ t_call.op_args[2].cls = "DeleteArg"
    /\ DOMAIN t_out.request[1] = {"Put"}
    /\ DOMAIN t_out.request[2] = {"Delete"}
    /\ t_out.raised.type = "TransactionCanceledException"
    /\ RaisedReasons.list = <<PyNone, "ConditionalCheckFailedException">>

---------------------------------------------------------------------------
(* Properties of SpecSteps and SpecRace. *)

\* C22: an operation has made no call before its request is built and
\* exactly one when it has ended: the call of the operation it stands for,
\* with the request built; a failure of that call is raised to the caller
\* and a batch_get reports unprocessed keys, both without another call.
C22_OneCallPerInvocation ==
    \A p \in Callers :
       /\ Len(p_calls[p]) <= 1
       /\ p_pc[p] \in {"idle", "building", "built"} => p_calls[p] = <<>>
       /\ p_pc[p] = "done"
          => /\ Len(p_calls[p]) = 1
             /\ p_calls[p][1].operation_name = AttemptedOperation(p_call[p].op)
             /\ p_calls[p][1].request = p_call[p].request
             /\ p_out[p].ok <=> p_out[p].raised.type = ""
             /\ ~p_out[p].ok => p_out[p].raised.operation_name = p_calls[p][1].operation_name
             /\ (p_out[p].ok /\ p_call[p].op = "batch_get")
                => Len(p_out[p].result.unprocessed_keys)
                     = Len(UnprocessedIn(p_out[p].response))

\* A delete that is not idempotent, refused by the store.
C22_Witness ==
    /\ p_pc[1] = "done"
    /\ p_call[1].op = "delete"
    /\ ~p_out[1].ok
    /\ p_out[1].raised.type = "ConditionalCheckFailedException"
    /\ Len(p_calls[1]) = 1
    /\ p_calls[1][1].operation_name = "DeleteItem"

\* A batch_get the store answered in part.
C22_WitnessUnprocessed ==
    /\ p_pc[1] = "done"
    /\ p_call[1].op = "batch_get"
    /\ p_out[1].ok
    /\ Len(p_out[1].result.unprocessed_keys) = 1
    /\ Len(p_calls[1]) = 1

\* The stamp of a request built when the clock showed `ticks`.
StampAt(ticks) ==
    [S |-> <<"1", "-", "1", "T", "1", ":", DigitChars[(ticks \div TicksPerSecond) + 1]>>]

\* The stamp a write request carries.
StampOf(kwargs) ==
    IF "Item" \in DOMAIN kwargs THEN kwargs.Item["CreatedAt"]
    ELSE kwargs.AttributeUpdates["UpdatedAt"].Value

\* C25: the CreatedAt / UpdatedAt of a request is the clock, in whole
\* seconds, at the moment get_kwargs built the request; the request called
\* with is the request built, however late the call is made; in a
\* transaction every entry carries the clock of its own get_kwargs, all of
\* them read before the call.
C25_StampAtBuildTime ==
    \A p \in Callers :
       /\ (p_pc[p] \in {"built", "done"}
           /\ p_call[p].op \in {"put", "insert", "update_attributes"})
          => StampOf(p_call[p].request) = StampAt(p_call[p].built_at[1])
       /\ p_call[p].op = "transact_write_items"
          => /\ Len(p_call[p].built_at) = Len(p_call[p].request)
             /\ \A i \in 1..Len(p_call[p].request) :
                   p_call[p].op_args[i].cls \in {"PutArg", "InsertArg", "UpdateArg"}
                   => StampOf(p_call[p].request[i][p_call[p].op_args[i].op_name])
                        = StampAt(p_call[p].built_at[i])
       /\ p_pc[p] = "done"
          => /\ p_calls[p][1].request = p_call[p].request
             /\ \A i \in 1..Len(p_call[p].built_at) :
                   p_call[p].built_at[i] <= p_calls[p][1].at
             /\ (p_out[p].ok /\ p_call[p].op \in {"put", "insert"})
                => AddressedItem(p_call[p])["CreatedAt"] = StampAt(p_call[p].built_at[1])

\* A transaction of two inserts built in different seconds and called in a
\* later tick; the items stored carry the seconds they were built in.
C25_Witness ==
    /\ p_pc[1] = "done"
    /\ p_call[1].op = "transact_write_items"
    /\ p_out[1].ok
    /\ Len(p_call[1].request) = 2
    /\ p_call[1].built_at[1] \div TicksPerSecond < p_call[1].built_at[2] \div TicksPerSecond
    /\ p_call[1].built_at[2] < p_calls[1][1].at
    /\ AddressedItem(p_call[1].op_args[1])["CreatedAt"] = StampAt(p_call[1].built_at[1])
    /\ AddressedItem(p_call[1].op_args[2])["CreatedAt"] = StampAt(p_call[1].built_at[2])
    /\ AddressedItem(p_call[1].op_args[1])["CreatedAt"]
         # AddressedItem(p_call[1].op_args[2])["CreatedAt"]

\* C24: when two callers have each inserted the same (pk, sk), one insert
\* has succeeded and the other has failed with
\* ConditionalCheckFailedException, and the store holds the item of the
\* insert that succeeded.
C24_OneInsertWins ==
    \A p, q \in Callers :
       (/\ p # q
        /\ p_pc[p] = "done"
        /\ p_pc[q] = "done"
        /\ p_call[p].op = "insert"
        /\ p_call[q].op = "insert"
        /\ p_call[p].pk = p_call[q].pk
        /\ p_call[p].sk = p_call[q].sk)
       => /\ p_out[p].ok # p_out[q].ok
          /\ p_out[p].ok
             => /\ p_out[q].raised.type = "ConditionalCheckFailedException"
                /\ AddressedItem(p_call[p]) = p_call[p].request.Item

---------------------------------------------------------------------------
(* Properties of SpecData. *)

\* The names of an item that are neither key attributes nor the stamp.
UserAttributes(item) ==
    DOMAIN item \ {t_primary_index.partition_key, t_primary_index.sort_key, "CreatedAt"}

\* C29: a get returns, for every attribute of the caller the item was
\* written with, exactly the string written.
C29_UserDataRoundTrip ==
    (t_out.op = "get" /\ t_out.ok /\ t_out.result.found)
    => \A a \in UserAttributes(AddressedItem(t_call)) \cap DOMAIN t_out.result.items[1] :
          t_out.result.items[1][a] = [t |-> "str", v |-> AddressedItem(t_call)[a].S]

---------------------------------------------------------------------------
(* Properties of SpecArgs. *)

\* C14: the CreatedAt attribute of every item PutArg / InsertArg builds, and
\* the UpdatedAt update of every request UpdateArg builds, holds the
\* builder's timestamp, whatever attributes the caller gave.
C14_StampWins ==
    /\ t_out.op \in {"PutArg", "InsertArg"}
       => t_out.kwargs.Item["CreatedAt"] = [S |-> t_call.now]
    /\ t_out.op = "UpdateArg"
       => t_out.kwargs.AttributeUpdates["UpdatedAt"]
            = [Action |-> "PUT", Value |-> [S |-> t_call.now]]

\* The caller gave an attribute named CreatedAt.
C14_Witness ==
    /\ t_out.op = "InsertArg"
    /\ "CreatedAt" \in DOMAIN t_call.attributes
    /\ t_call.attributes["CreatedAt"].v # t_call.now
    /\ t_out.kwargs.Item["CreatedAt"] = [S |-> t_call.now]

C17_QueryLimit ==
    t_out.op = "QueryArg"
    => /\ t_out.raised = "ValueError" <=> (~t_call.limit.isNone /\ t_call.limit.n > 1000)
       /\ t_out.raised # "ValueError"
          => t_out.kwargs.Limit = IF t_call.limit.isNone THEN 1000 ELSE t_call.limit.n

\* The largest limit accepted.
C17_Witness ==
    /\ t_out.op = "QueryArg"
    /\ t_call.limit = [isNone |-> FALSE, n |-> 1000]
    /\ t_out.raised = ""
    /\ t_out.kwargs.Limit = 1000

\* C18: a QueryArg built without an attribute list projects exactly the sort
\* attribute of the index queried: the secondary index's when one is given,
\* the primary index's otherwise.
C18_DefaultProjection ==
    (/\ t_out.op = "QueryArg"
     /\ t_out.raised = ""
     /\ t_call.attributes = <<>>)
    => t_out.kwargs.ProjectionExpression
         = <<(IF t_call.global_index.name # "" THEN t_call.global_index
              ELSE t_primary_index).sort_key>>

\* The attribute a condition expression names.
GuardedAttribute(kwargs) == kwargs.ConditionExpression[3]

\* The key of the item a write request addresses.
RequestKey(kwargs) == IF "Item" \in DOMAIN kwargs THEN kwargs.Item ELSE kwargs.Key

\* C28: the guard of a DeleteArg that is not idempotent, of a PutArg that
\* may not overwrite and of an InsertArg names the partition attribute of
\* the primary index get_kwargs is given, an attribute the key of the
\* request holds.
C28_GuardNamesPartitionAttribute ==
    (/\ t_out.op \in {"DeleteArg", "PutArg", "InsertArg"}
     /\ "ConditionExpression" \in DOMAIN t_out.kwargs)
    => /\ GuardedAttribute(t_out.kwargs) = t_primary_index.partition_key
       /\ GuardedAttribute(t_out.kwargs) \in DOMAIN RequestKey(t_out.kwargs)

\* C30: every QueryArg that is built renders a Limit from 1 to 1000.
C30_LimitInRange ==
    (t_out.op = "QueryArg" /\ t_out.raised = "")
    => (t_out.kwargs.Limit >= 1 /\ t_out.kwargs.Limit <= 1000)

---------------------------------------------------------------------------
(* Properties of SpecValues. *)

\* Python's `==` on values: an int equals the Decimal of the same number,
\* bytes equal the Binary that wraps them, lists, sets and dicts are equal
\* member by member, anything else equals only its like.
RECURSIVE PyEq(_, _)
PyEq(a, b) ==
    IF a.t \in {"int", "Decimal"} /\ b.t \in {"int", "Decimal"} THEN a.v = b.v
    ELSE IF a.t \in {"bytes", "Binary"} /\ b.t \in {"bytes", "Binary"} THEN a.v = b.v
    ELSE IF a.t # b.t THEN FALSE
    ELSE IF a.t = "list"
    THEN Len(a.v) = Len(b.v) /\ \A i \in DOMAIN a.v : PyEq(a.v[i], b.v[i])
    ELSE IF a.t = "set"
    THEN /\ \A x \in a.v : \E y \in b.v : PyEq(x, y)
         /\ \A y \in b.v : \E x \in a.v : PyEq(x, y)
    ELSE IF a.t = "dict"
    THEN DOMAIN a.v = DOMAIN b.v /\ \A k \in DOMAIN a.v : PyEq(a.v[k], b.v[k])
    ELSE a.v = b.v

\* C23: deserialize_dict(serialize_dict(d)) has the keys of d and under each
\* key a value equal to the one d holds, whatever supported value that is
\* (deserialize_val(serialize_val(v)) == v for each of them); the wire form
\* has the same keys.
C23_CodecRoundTrip ==
    /\ v_out.call = "serialize_dict" => DOMAIN v_out.res = DOMAIN v_item
    /\ v_out.call = "deserialize_dict"
       => /\ DOMAIN v_out.res = DOMAIN v_item
          /\ \A k \in DOMAIN v_item : PyEq(v_out.res[k], v_item[k])

\* A list holding a negative number and binary data came back.
C23_Witness ==
    /\ v_out.call = "deserialize_dict"
    /\ v_item = [k \in {"Foo"} |-> [t |-> "list", v |-> <<[t |-> "int", v |-> 0 - 10],
                                                           [t |-> "bytes", v |-> <<"x">>]>>]]
    /\ v_out.given = [k \in {"Foo"} |-> [L |-> <<[N |-> <<"-", "1", "0">>], [B |-> <<"x">>]>>]]
    /\ v_out.res["Foo"].v[1] = [t |-> "Decimal", v |-> 0 - 10]

\* C27: _strip_prefixes leaves the item it is given as it was and returns an
\* item with the same attribute names, in which each string value is the
\* given one with its entity prefix removed and every other value is the
\* given one, strings inside lists and maps included.
C27_StripFrame ==
    v_out.call = "_strip_prefixes"
    => /\ v_item = v_out.given
       /\ DOMAIN v_out.res = DOMAIN v_out.given
       /\ \A k \in DOMAIN v_out.given :
             IF v_out.given[k].t = "str"
             THEN v_out.res[k] = [t |-> "str", v |-> RemoveEntityPrefix(v_out.given[k].v)]
             ELSE v_out.res[k] = v_out.given[k]

\* A prefixed string at the top level next to one inside a list.
C27_Witness ==
    /\ v_out.call = "_strip_prefixes"
    /\ v_out.given = [Foo |-> [t |-> "str", v |-> <<"U", "#", "a">>],
                      Bar |-> [t |-> "list", v |-> <<[t |-> "str", v |-> <<"U", "#", "a">>]>>]]
    /\ v_item = v_out.given
    /\ v_out.res["Foo"] = [t |-> "str", v |-> <<"a">>]
    /\ v_out.res["Bar"] = v_out.given["Bar"]

=============================================================================
